---- MODULE Spec2Model ----
(***************************************************************************)
(* Authenticated hierarchical resource layer of the task-management        *)
(* backend: the HTTP handlers of api.cpp on top of the task-list worker    *)
(* and the task worker, which keep their records in a flat key-value       *)
(* store.                                                                  *)
(*                                                                         *)
(* Strings are sequences of symbols (<<>> is the empty string).  A JSON    *)
(* object is a function from its present keys to their values, so          *)
(* json.find(k) != json.end() is k \in DOMAIN json.                        *)
(***************************************************************************)
EXTENDS Integers, Sequences, FiniteSets, TLC

VARIABLES
    lists,    \* key-value store of the task-list worker: derived key -> stored record
    tasks,    \* key-value store of the task worker, same shape
    res,      \* the HTTP response of the last handler that ran
    placed,   \* history: <<user, task-list, task>> of every task created and not deleted since
    now,      \* std::chrono::system_clock::now(), in seconds
    users,    \* the account directory: email -> name and password
    regs,     \* the register requests in progress, one per server thread
    succeeded, \* history: per email, the accounts of the register requests answered 200, in order
    tokens,   \* the tokens that callers hold: each with the email and the time of its login
    loggedOut, \* history: the tokens that a logout answered 200 was called with
    calls,    \* the worker calls in progress, one per server thread, store operation by store operation
    writes,   \* history: the threads of calls, in the order of their writes to the store
    scan,     \* the order in which the store scans its keys: the order of their insertion
    created   \* history: account, task-list if any, and name of every create answered 200
              \* and not deleted since, in the order of the answers

vars == <<lists, tasks, res, placed, now, users, regs, succeeded, tokens, loggedOut,
          calls, writes, scan, created>>

\* what the handlers of the workers leave alone
acctVars == <<users, regs, succeeded>>
sessionVars == <<tokens, loggedOut>>
raceVars == <<calls, writes>>
scanVars == <<scan, created>>

-----------------------------------------------------------------------------
(* Bounds of the model *)

\* records a store holds
MaxRecords == 3

\* records the two stores hold together where the order of the scan is followed
MaxScan == 3

\* records a store holds where two accounts share it
MaxOwned == 3

\* records the two stores hold together where requests come by their routes
MaxRouted == 2

-----------------------------------------------------------------------------
(* Strings *)

EmptyStr == <<>>

U == <<"u">>
V == <<"v">>
X == <<"x">>
X1 == <<"x", "-", "1">>
Content1 == <<"c1">>
Content2 == <<"c2">>
Date1 == <<"d1">>
Date2 == <<"d2">>

\* reserved separator of derived keys; no name a caller sends contains it
Sep == "/"

IsPrefix(p, s) == Len(p) <= Len(s) /\ SubSeq(s, 1, Len(p)) = p

Digits == <<"0", "1", "2", "3", "4", "5", "6", "7", "8", "9">>

\* std::to_string of a non-negative int
RECURSIVE to_string(_)
to_string(n) ==
    IF n < 10 THEN <<Digits[n + 1]>>
    ELSE to_string(n \div 10) \o <<Digits[(n % 10) + 1]>>

-----------------------------------------------------------------------------
(* Content records: TasklistContent and TaskContent have the same fields *)

Fields == {"name", "content", "date"}

Content(n, c, d) == [name |-> n, content |-> c, date |-> d]

\* default-constructed content: every field the empty string
EmptyContent == Content(EmptyStr, EmptyStr, EmptyStr)


\* LoseKey with a slip: taken for IsEmpty
LoseKey_IsEmpty(c) == c.name = EmptyStr /\ c.content = EmptyStr /\ c.date = EmptyStr

LoseKey(c) == c.name = EmptyStr

\* marshal: the fields that are set
Content2Map(c) == [f \in {g \in Fields : c[g] # EmptyStr} |-> c[f]]

\* unmarshal: a field the map lacks stays default-empty
Map2Content(m) == [f \in Fields |-> IF f \in DOMAIN m THEN m[f] ELSE EmptyStr]

-----------------------------------------------------------------------------
(* Key-value store *)

EmptyDB == <<>>

Keys(db) == DOMAIN db

DBExists(db, key) == key \in Keys(db)

DBGet(db, key) == db[key]

DBPut(db, key, val) == [k \in Keys(db) \cup {key} |-> IF k = key THEN val ELSE db[k]]

DBDelete(db, key) == [k \in Keys(db) \ {key} |-> db[k]]

\* the keys that start with prefix
ListByPrefix(db, prefix) == {k \in Keys(db) : IsPrefix(prefix, k)}

\* derived key: owner key, separator, child key
DeriveKey(owner, child) == owner \o <<Sep>> \o child

-----------------------------------------------------------------------------
(* Request scope *)

RequestData(u, l, t) == [user_key |-> u, tasklist_key |-> l, task_key |-> t]

-----------------------------------------------------------------------------
(* Resource worker: hierarchical CRUD over an owner key and a child key.   *)
(* It is instantiated for task-lists (owner = account) and for tasks       *)
(* (owner = account and task-list).                                        *)

Result(code, db, name, out, names) ==
    [code |-> code, db |-> db, name |-> name, out |-> out, names |-> names]

Fail(code, db) == Result(code, db, EmptyStr, EmptyContent, {})

Worker_Exists(db, owner, child) ==
    /\ owner # EmptyStr
    /\ child # EmptyStr
    /\ DBExists(db, DeriveKey(owner, child))

Worker_Query(db, owner, child) ==
    IF owner = EmptyStr \/ child = EmptyStr THEN Fail("INVALID_INPUT", db)
    ELSE IF ~DBExists(db, DeriveKey(owner, child)) THEN Fail("NOT_FOUND", db)
    ELSE Result("SUCCESS", db, EmptyStr, Map2Content(DBGet(db, DeriveKey(owner, child))), {})

\* the name tried after the one with suffix prev_suffix
Rename(name, prev_suffix) == name \o <<"-">> \o to_string(prev_suffix + 1)

\* the probing loop of Create: cur is the name tried now, suffix the suffix it
\* carries (0 for the requested name itself)
RECURSIVE Probe(_, _, _, _, _)
Probe(db, owner, name, cur, suffix) ==
    IF Worker_Exists(db, owner, cur)
    THEN Probe(db, owner, name, Rename(name, suffix), suffix + 1)
    ELSE [name |-> cur, suffix |-> suffix]


\* Worker_Create with a slip: the record is stored as it came in, under the
\* free key but with the requested name
Worker_Create_RequestedName(db, owner, in) ==
    IF owner = EmptyStr \/ LoseKey(in) THEN Fail("INVALID_INPUT", db)
    ELSE LET free == Probe(db, owner, in.name, in.name, 0).name
         IN  Result("SUCCESS", DBPut(db, DeriveKey(owner, free), Content2Map(in)),
                    free, in, {})

Worker_Create(db, owner, in) ==
    IF owner = EmptyStr \/ LoseKey(in) THEN Fail("INVALID_INPUT", db)
    ELSE LET free   == Probe(db, owner, in.name, in.name, 0).name
             stored == [in EXCEPT !.name = free]
         IN  Result("SUCCESS", DBPut(db, DeriveKey(owner, free), Content2Map(stored)),
                    free, stored, {})

\* the patch is merged into the stored record: content and date only, and only
\* the fields the patch sets
Merge(old, patch) ==
    LET set == DOMAIN patch \cap {"content", "date"}
    IN  [f \in DOMAIN old \cup set |-> IF f \in set THEN patch[f] ELSE old[f]]

Worker_Revise(db, owner, child, in) ==
    IF owner = EmptyStr \/ child = EmptyStr THEN Fail("INVALID_INPUT", db)
    ELSE IF ~DBExists(db, DeriveKey(owner, child)) THEN Fail("NOT_FOUND", db)
    ELSE LET key == DeriveKey(owner, child)
         IN  Result("SUCCESS", DBPut(db, key, Merge(DBGet(db, key), Content2Map(in))),
                    EmptyStr, EmptyContent, {})

Worker_Delete(db, owner, child) ==
    IF owner = EmptyStr \/ child = EmptyStr THEN Fail("INVALID_INPUT", db)
    ELSE IF ~DBExists(db, DeriveKey(owner, child)) THEN Fail("NOT_FOUND", db)
    ELSE Result("SUCCESS", DBDelete(db, DeriveKey(owner, child)), EmptyStr, EmptyContent, {})

\* the child keys under the owner, from the store's prefix scan
Worker_GetAll(db, owner) ==
    IF owner = EmptyStr THEN Fail("INVALID_INPUT", db)
    ELSE LET prefix == owner \o <<Sep>>
         IN  Result("SUCCESS", db, EmptyStr, EmptyContent,
                    {SubSeq(k, Len(prefix) + 1, Len(k)) : k \in ListByPrefix(db, prefix)})

\* owner key of a task-list: the account
TasklistOwner(data) == data.user_key

\* owner key of a task: account and task-list, both needed
TaskOwner(data) ==
    IF data.user_key = EmptyStr \/ data.tasklist_key = EmptyStr THEN EmptyStr
    ELSE DeriveKey(data.user_key, data.tasklist_key)

TaskListsWorker_Query(db, data) == Worker_Query(db, TasklistOwner(data), data.tasklist_key)
TaskListsWorker_Create(db, data, in) == Worker_Create(db, TasklistOwner(data), in)
TaskListsWorker_Delete(db, data) == Worker_Delete(db, TasklistOwner(data), data.tasklist_key)
TaskListsWorker_Revise(db, data, in) == Worker_Revise(db, TasklistOwner(data), data.tasklist_key, in)
TaskListsWorker_Exists(db, data) == Worker_Exists(db, TasklistOwner(data), data.tasklist_key)
TaskListsWorker_GetAllTasklist(db, data) == Worker_GetAll(db, TasklistOwner(data))

TasksWorker_Query(db, data) == Worker_Query(db, TaskOwner(data), data.task_key)
TasksWorker_Create(db, data, in) == Worker_Create(db, TaskOwner(data), in)
TasksWorker_Delete(db, data) == Worker_Delete(db, TaskOwner(data), data.task_key)
TasksWorker_Revise(db, data, in) == Worker_Revise(db, TaskOwner(data), data.task_key, in)
TasksWorker_Exists(db, data) == Worker_Exists(db, TaskOwner(data), data.task_key)
TasksWorker_GetAllTasksName(db, data) == Worker_GetAll(db, TaskOwner(data))

-----------------------------------------------------------------------------
(* Account directory (class Users) *)

UserInfo(name, email, passwd) == [name |-> name, email |-> email, passwd |-> passwd]

NoUsers == <<>>

Users_DuplicatedEmail(dir, info) == info.email \in DOMAIN dir

\* the write of Create: the account is persisted under its email
Users_Put(dir, info) ==
    [e \in DOMAIN dir \cup {info.email} |->
        IF e = info.email THEN [name |-> info.name, passwd |-> info.passwd] ELSE dir[e]]

\* Create run alone: it fails when the email is present, else persists
Users_Create(dir, info) ==
    IF Users_DuplicatedEmail(dir, info) THEN [ok |-> FALSE, users |-> dir]
    ELSE [ok |-> TRUE, users |-> Users_Put(dir, info)]

Users_Validate(dir, info) ==
    /\ info.email \in DOMAIN dir
    /\ dir[info.email].passwd = info.passwd

-----------------------------------------------------------------------------
(* Credentials *)

\* signing secret of this process (a random string drawn at construction)
token_secret_key == "secret"

\* lifetime of the tokens that a login issues, in seconds
TokenTTL == 3600

\* a signed token: its payload (the email and the "exp" claim) and the secret
\* that its signature was made with
Token(email, exp, secret) == [email |-> email, exp |-> exp, secret |-> secret]

\* what the decoders return for "no token"
EmptyToken == Token(EmptyStr, 0, "")

EncodeTokenFromEmail(email, expire_seconds, secret_key) ==
    Token(email, now + expire_seconds, secret_key)

\* An Authorization header value is the sequence of its space-separated parts;
\* the second part is the sequence of the ':'-separated parts of the decoded
\* credential.
BasicAuth(token) == <<"Basic", <<token>>>>

DecodeTokenFromBasicAuth(auth) ==
    IF Len(auth) # 2 \/ auth[1] # "Basic" THEN EmptyToken
    ELSE IF Len(auth[2]) = 0 THEN EmptyToken
    ELSE auth[2][1]

\* DecodeEmailFromToken with a slip: the "exp" claim is not verified
DecodeEmailFromToken_NoExpiry(token, secret_key) ==
    IF token.secret # secret_key THEN EmptyStr ELSE token.email

\* the signature is checked against the secret and the "exp" claim against
\* the clock; a token that fails decodes to the empty string
DecodeEmailFromToken(token, secret_key) ==
    IF token.secret # secret_key \/ now > token.exp THEN EmptyStr ELSE token.email

\* API_CHECK_REQUEST_TOKEN: headers is <<>> without an Authorization header,
\* else <<value>>.  The empty string stands for "failed basic auth".
CheckRequestToken(headers) ==
    IF Len(headers) = 0 THEN EmptyStr
    ELSE DecodeEmailFromToken(DecodeTokenFromBasicAuth(headers[1]), token_secret_key)

-----------------------------------------------------------------------------
(* Requests and responses *)

\* a request body: text that parses to the JSON object json, or does not parse
Body(json) == [ok |-> TRUE, json |-> json]
BadBody == [ok |-> FALSE, json |-> <<>>]

\* JSON object with the fields among name, content, date that are given;
\* each argument is <<>> (field absent) or <<value>>
JsonObject(n, c, d) ==
    LET o == [name |-> n, content |-> c, date |-> d]
    IN  [f \in {g \in Fields : Len(o[g]) = 1} |-> o[f][1]]

Has(json, field) == field \in DOMAIN json

\* API_RETURN_HTTP_RESP: status and the JSON fields of the response
Resp(status, msg, name, names, data) ==
    [status |-> status, msg |-> msg, name |-> name, names |-> names, data |-> data]

RespMsg(status, msg) == Resp(status, msg, EmptyStr, {}, EmptyContent)

FailedBasicAuth == RespMsg(500, "failed basic auth")

\* what a handler leaves behind: its response and the store it worked on
Handled(r, db) == [res |-> r, db |-> db]

\* the content a handler fills from the body: content and date when present
FillContent(in, json) ==
    [in EXCEPT !.content = IF Has(json, "content") THEN json["content"] ELSE @,
               !.date    = IF Has(json, "date") THEN json["date"] ELSE @]

-----------------------------------------------------------------------------
(* Account handlers *)

\* the header value of a register or a login: the scheme and the
\* ':'-separated parts of the decoded credential
BasicAuthPassword(email, passwd) == <<"Basic", <<email, passwd>>>>

DecodeEmailAndPasswordFromBasicAuth(auth) ==
    IF Len(auth) # 2 \/ auth[1] # "Basic" \/ Len(auth[2]) # 2
    THEN [ok |-> FALSE, email |-> EmptyStr, passwd |-> EmptyStr]
    ELSE [ok |-> TRUE, email |-> auth[2][1], passwd |-> auth[2][2]]

\* the response of a login that succeeds carries the token
RespToken(status, msg, token) ==
    [status |-> status, msg |-> msg, name |-> EmptyStr, names |-> {},
     data |-> EmptyContent, token |-> token]

\* UsersRegister up to the directory: the failure it answers, or none and the
\* account that it goes on with
RegisterRequest(headers, body) ==
    LET cred == IF Len(headers) = 0 THEN DecodeEmailAndPasswordFromBasicAuth(<<>>)
                ELSE DecodeEmailAndPasswordFromBasicAuth(headers[1])
        none == UserInfo(EmptyStr, EmptyStr, EmptyStr)
    IN  IF ~cred.ok THEN [failed |-> TRUE, res |-> FailedBasicAuth, info |-> none]
        ELSE IF cred.email = EmptyStr \/ cred.passwd = EmptyStr
        THEN [failed |-> TRUE, res |-> RespMsg(500, "failed no email or password"),
              info |-> none]
        ELSE IF ~body.ok \/ ~Has(body.json, "name")
        THEN [failed |-> TRUE, res |-> RespMsg(500, "failed body format error"),
              info |-> none]
        ELSE [failed |-> FALSE, res |-> RespMsg(0, ""),
              info |-> UserInfo(body.json["name"], cred.email, cred.passwd)]

\* UsersRegister run alone
UsersRegister(dir, headers, body) ==
    LET rq == RegisterRequest(headers, body)
        c  == Users_Create(dir, rq.info)
    IN  IF rq.failed THEN Handled(rq.res, dir)
        ELSE IF Users_DuplicatedEmail(dir, rq.info)
        THEN Handled(RespMsg(500, "failed duplicated email"), dir)
        ELSE IF c.ok THEN Handled(RespMsg(200, "success"), c.users)
        ELSE Handled(RespMsg(500, "failed create user"), dir)


\* UsersLogin with a slip: an email without an account gets an answer of its own
UsersLogin_TellsUnknown(dir, headers) ==
    LET cred == IF Len(headers) = 0 THEN DecodeEmailAndPasswordFromBasicAuth(<<>>)
                ELSE DecodeEmailAndPasswordFromBasicAuth(headers[1])
        token == EncodeTokenFromEmail(cred.email, TokenTTL, token_secret_key)
    IN  IF ~cred.ok THEN FailedBasicAuth
        ELSE IF cred.email = EmptyStr \/ cred.passwd = EmptyStr
        THEN RespMsg(500, "failed no email or password")
        ELSE IF ~Users_DuplicatedEmail(dir, UserInfo(EmptyStr, cred.email, cred.passwd))
        THEN RespMsg(500, "failed unknown user")
        ELSE IF Users_Validate(dir, UserInfo(EmptyStr, cred.email, cred.passwd))
        THEN IF token = EmptyToken THEN RespMsg(500, "failed create token")
             ELSE RespToken(200, "success", token)
        ELSE RespMsg(500, "failed user login")

UsersLogin(dir, headers) ==
    LET cred == IF Len(headers) = 0 THEN DecodeEmailAndPasswordFromBasicAuth(<<>>)
                ELSE DecodeEmailAndPasswordFromBasicAuth(headers[1])
        token == EncodeTokenFromEmail(cred.email, TokenTTL, token_secret_key)
    IN  IF ~cred.ok THEN FailedBasicAuth
        ELSE IF cred.email = EmptyStr \/ cred.passwd = EmptyStr
        THEN RespMsg(500, "failed no email or password")
        ELSE IF Users_Validate(dir, UserInfo(EmptyStr, cred.email, cred.passwd))
        THEN IF token = EmptyToken THEN RespMsg(500, "failed create token")
             ELSE RespToken(200, "success", token)
        ELSE RespMsg(500, "failed user login")

\* the token is resolved and nothing is done with it
UsersLogout(headers) ==
    LET user_email == CheckRequestToken(headers)
    IN  IF user_email = EmptyStr THEN FailedBasicAuth ELSE RespMsg(200, "success")

-----------------------------------------------------------------------------
(* Task-list handlers *)


\* TaskListsAll with a slip: one of the names the worker returned is left out
TaskListsAll_SkipsOne(db, headers) ==
    LET user_email == CheckRequestToken(headers)
        r == TaskListsWorker_GetAllTasklist(db, RequestData(user_email, EmptyStr, EmptyStr))
        kept == IF r.names = {} THEN {} ELSE r.names \ {CHOOSE n \in r.names : TRUE}
    IN  IF user_email = EmptyStr THEN Handled(FailedBasicAuth, db)
        ELSE IF r.code # "SUCCESS"
        THEN Handled(RespMsg(500, "failed internal server error"), db)
        ELSE Handled(Resp(200, "success", EmptyStr, kept, EmptyContent), db)

TaskListsAll(db, headers) ==
    LET user_email == CheckRequestToken(headers)
        r == TaskListsWorker_GetAllTasklist(db, RequestData(user_email, EmptyStr, EmptyStr))
    IN  IF user_email = EmptyStr THEN Handled(FailedBasicAuth, db)
        ELSE IF r.code # "SUCCESS"
        THEN Handled(RespMsg(500, "failed internal server error"), db)
        ELSE Handled(Resp(200, "success", EmptyStr, r.names, EmptyContent), db)


\* TaskListsGet with a slip: the record goes out with content and date swapped
TaskListsGet_Swapped(db, headers, m1) ==
    LET user_email == CheckRequestToken(headers)
        r == TaskListsWorker_Query(db, RequestData(user_email, m1, EmptyStr))
    IN  IF user_email = EmptyStr THEN Handled(FailedBasicAuth, db)
        ELSE IF r.code # "SUCCESS"
        THEN Handled(RespMsg(500, "failed internal server error"), db)
        ELSE Handled(Resp(200, "success", EmptyStr, {},
                          Content(r.out.name, r.out.date, r.out.content)), db)


\* TaskListsGet with a slip: a name the caller does not hold is looked up
\* under the other accounts
TaskListsGet_AnyOwner(db, headers, m1) ==
    LET user_email == CheckRequestToken(headers)
        r == TaskListsWorker_Query(db, RequestData(user_email, m1, EmptyStr))
        tail == <<Sep>> \o m1
        named == {k \in Keys(db) : /\ Len(k) > Len(tail)
                                   /\ SubSeq(k, Len(k) - Len(tail) + 1, Len(k)) = tail}
    IN  IF user_email = EmptyStr THEN Handled(FailedBasicAuth, db)
        ELSE IF r.code = "SUCCESS"
        THEN Handled(Resp(200, "success", EmptyStr, {}, r.out), db)
        ELSE IF named # {}
        THEN Handled(Resp(200, "success", EmptyStr, {},
                          Map2Content(DBGet(db, CHOOSE k \in named : TRUE))), db)
        ELSE Handled(RespMsg(500, "failed internal server error"), db)

TaskListsGet(db, headers, m1) ==
    LET user_email == CheckRequestToken(headers)
        r == TaskListsWorker_Query(db, RequestData(user_email, m1, EmptyStr))
    IN  IF user_email = EmptyStr THEN Handled(FailedBasicAuth, db)
        ELSE IF r.code # "SUCCESS"
        THEN Handled(RespMsg(500, "failed internal server error"), db)
        ELSE Handled(Resp(200, "success", EmptyStr, {}, r.out), db)


\* TaskListsUpdate with a slip: the name of the patch is not looked at
TaskListsUpdate_NoNameCheck(db, headers, m1, body) ==
    LET user_key == CheckRequestToken(headers)
        tasklist_req == RequestData(user_key, m1, EmptyStr)
        json_body == body.json
        tasklist_content == FillContent(EmptyContent, json_body)
        r == TaskListsWorker_Revise(db, tasklist_req, tasklist_content)
    IN  IF user_key = EmptyStr THEN Handled(FailedBasicAuth, db)
        ELSE IF ~body.ok
        THEN Handled(RespMsg(500, "failed request body format error"), db)
        ELSE IF r.code # "SUCCESS"
        THEN Handled(RespMsg(500, "failed update tasklist"), db)
        ELSE Handled(RespMsg(200, "success"), r.db)

TaskListsUpdate(db, headers, m1, body) ==
    LET user_key == CheckRequestToken(headers)
        tasklist_req == RequestData(user_key, m1, EmptyStr)
        json_body == body.json
        tasklist_content == FillContent(EmptyContent, json_body)
        r == TaskListsWorker_Revise(db, tasklist_req, tasklist_content)
    IN  IF user_key = EmptyStr THEN Handled(FailedBasicAuth, db)
        ELSE IF ~body.ok
        THEN Handled(RespMsg(500, "failed request body format error"), db)
        ELSE IF Has(json_body, "name") /\ json_body["name"] # tasklist_req.tasklist_key
        THEN Handled(RespMsg(500, "failed tasklist name can not be changed"), db)
        ELSE IF r.code # "SUCCESS"
        THEN Handled(RespMsg(500, "failed update tasklist"), db)
        ELSE Handled(RespMsg(200, "success"), r.db)



\* TaskListsDelete with a slip: the credential is not looked at
TaskListsDelete_NoTokenCheck(db, headers, m1) ==
    LET user_key == CheckRequestToken(headers)
        r == TaskListsWorker_Delete(db, RequestData(user_key, m1, EmptyStr))
    IN  IF r.code # "SUCCESS"
        THEN Handled(RespMsg(500, "failed delete tasklist"), db)
        ELSE Handled(RespMsg(200, "success"), r.db)

\* TaskListsDelete with a slip: the code that Delete returns is not looked at
TaskListsDelete_IgnoreCode(db, headers, m1) ==
    LET user_key == CheckRequestToken(headers)
        r == TaskListsWorker_Delete(db, RequestData(user_key, m1, EmptyStr))
    IN  IF user_key = EmptyStr THEN Handled(FailedBasicAuth, db)
        ELSE Handled(RespMsg(200, "success"), r.db)

TaskListsDelete(db, headers, m1) ==
    LET user_key == CheckRequestToken(headers)
        r == TaskListsWorker_Delete(db, RequestData(user_key, m1, EmptyStr))
    IN  IF user_key = EmptyStr THEN Handled(FailedBasicAuth, db)
        ELSE IF r.code # "SUCCESS"
        THEN Handled(RespMsg(500, "failed delete tasklist"), db)
        ELSE Handled(RespMsg(200, "success"), r.db)


\* TaskListsCreate with a slip: the response carries the name the body asked
\* for, not the name the worker gave
TaskListsCreate_RequestedName(db, headers, body) ==
    LET user_key == CheckRequestToken(headers)
        json_body == body.json
        tasklist_req == RequestData(user_key, json_body["name"], EmptyStr)
        tasklist_content ==
            FillContent([EmptyContent EXCEPT !.name = json_body["name"]], json_body)
        r == TaskListsWorker_Create(db, tasklist_req, tasklist_content)
    IN  IF user_key = EmptyStr THEN Handled(FailedBasicAuth, db)
        ELSE IF ~body.ok \/ ~Has(json_body, "name")
        THEN Handled(RespMsg(500, "failed body format error"), db)
        ELSE IF r.code # "SUCCESS"
        THEN Handled(RespMsg(500, "failed create tasklist"), db)
        ELSE Handled(Resp(200, "success", json_body["name"], {}, EmptyContent), r.db)

TaskListsCreate(db, headers, body) ==
    LET user_key == CheckRequestToken(headers)
        json_body == body.json
        tasklist_req == RequestData(user_key, json_body["name"], EmptyStr)
        tasklist_content ==
            FillContent([EmptyContent EXCEPT !.name = json_body["name"]], json_body)
        r == TaskListsWorker_Create(db, tasklist_req, tasklist_content)
    IN  IF user_key = EmptyStr THEN Handled(FailedBasicAuth, db)
        ELSE IF ~body.ok \/ ~Has(json_body, "name")
        THEN Handled(RespMsg(500, "failed body format error"), db)
        ELSE IF r.code # "SUCCESS"
        THEN Handled(RespMsg(500, "failed create tasklist"), db)
        ELSE Handled(Resp(200, "success", r.name, {}, EmptyContent), r.db)

-----------------------------------------------------------------------------
(* Task handlers: m1 is the task-list name of the path, m2 the task name *)

TasksAll(db, headers, m1) ==
    LET user_email == CheckRequestToken(headers)
        r == TasksWorker_GetAllTasksName(db, RequestData(user_email, m1, EmptyStr))
    IN  IF user_email = EmptyStr THEN Handled(FailedBasicAuth, db)
        ELSE IF r.code # "SUCCESS"
        THEN Handled(RespMsg(500, "failed internal server error"), db)
        ELSE Handled(Resp(200, "success", EmptyStr, r.names, EmptyContent), db)


\* TasksGet with a slip: the task-list name is not looked at
TasksGet_NoListCheck(db, headers, m1, m2) ==
    LET user_email == CheckRequestToken(headers)
        r == TasksWorker_Query(db, RequestData(user_email, m1, m2))
    IN  IF user_email = EmptyStr THEN Handled(FailedBasicAuth, db)
        ELSE IF r.code # "SUCCESS"
        THEN Handled(RespMsg(500, "failed internal server error"), db)
        ELSE Handled(Resp(200, "success", EmptyStr, {}, r.out), db)

TasksGet(db, headers, m1, m2) ==
    LET user_email == CheckRequestToken(headers)
        r == TasksWorker_Query(db, RequestData(user_email, m1, m2))
    IN  IF user_email = EmptyStr THEN Handled(FailedBasicAuth, db)
        ELSE IF m1 = EmptyStr
        THEN Handled(RespMsg(500, "failed need tasklist name"), db)
        ELSE IF r.code # "SUCCESS"
        THEN Handled(RespMsg(500, "failed internal server error"), db)
        ELSE Handled(Resp(200, "success", EmptyStr, {}, r.out), db)


\* TasksUpdate with a slip: the code that Revise returns is not looked at
TasksUpdate_IgnoreCode(db, headers, m1, m2, body) ==
    LET user_email == CheckRequestToken(headers)
        task_req == RequestData(user_email, m1, m2)
        json_body == body.json
        task_content == FillContent(EmptyContent, json_body)
        r == TasksWorker_Revise(db, task_req, task_content)
    IN  IF user_email = EmptyStr THEN Handled(FailedBasicAuth, db)
        ELSE IF task_req.tasklist_key = EmptyStr
        THEN Handled(RespMsg(500, "failed need tasklist name"), db)
        ELSE IF ~body.ok
        THEN Handled(RespMsg(500, "failed request body format error"), db)
        ELSE IF Has(json_body, "name") /\ json_body["name"] # task_req.task_key
        THEN Handled(RespMsg(500, "failed task name can not be changed"), db)
        ELSE Handled(RespMsg(200, "success"), r.db)

TasksUpdate(db, headers, m1, m2, body) ==
    LET user_email == CheckRequestToken(headers)
        task_req == RequestData(user_email, m1, m2)
        json_body == body.json
        task_content == FillContent(EmptyContent, json_body)
        r == TasksWorker_Revise(db, task_req, task_content)
    IN  IF user_email = EmptyStr THEN Handled(FailedBasicAuth, db)
        ELSE IF task_req.tasklist_key = EmptyStr
        THEN Handled(RespMsg(500, "failed need tasklist name"), db)
        ELSE IF ~body.ok
        THEN Handled(RespMsg(500, "failed request body format error"), db)
        ELSE IF Has(json_body, "name") /\ json_body["name"] # task_req.task_key
        THEN Handled(RespMsg(500, "failed task name can not be changed"), db)
        ELSE IF r.code # "SUCCESS"
        THEN Handled(RespMsg(500, "failed internal server error"), db)
        ELSE Handled(RespMsg(200, "success"), r.db)


\* TasksDelete with a slip: the two names of the path are taken in the wrong
\* order
TasksDelete_SwappedPath(db, headers, m1, m2) ==
    LET user_email == CheckRequestToken(headers)
        task_req == RequestData(user_email, m2, m1)
        r == TasksWorker_Delete(db, task_req)
    IN  IF user_email = EmptyStr THEN Handled(FailedBasicAuth, db)
        ELSE IF task_req.tasklist_key = EmptyStr
        THEN Handled(RespMsg(500, "failed need tasklist name"), db)
        ELSE IF r.code # "SUCCESS"
        THEN Handled(RespMsg(500, "failed internal server error"), db)
        ELSE Handled(RespMsg(200, "success"), r.db)

TasksDelete(db, headers, m1, m2) ==
    LET user_email == CheckRequestToken(headers)
        task_req == RequestData(user_email, m1, m2)
        r == TasksWorker_Delete(db, task_req)
    IN  IF user_email = EmptyStr THEN Handled(FailedBasicAuth, db)
        ELSE IF task_req.tasklist_key = EmptyStr
        THEN Handled(RespMsg(500, "failed need tasklist name"), db)
        ELSE IF r.code # "SUCCESS"
        THEN Handled(RespMsg(500, "failed internal server error"), db)
        ELSE Handled(RespMsg(200, "success"), r.db)


\* TasksCreate with a slip: the name of the body goes into the request scope
\* only, and the content keeps its default name
TasksCreate_NoContentName(db, headers, m1, body) ==
    LET user_key == CheckRequestToken(headers)
        json_body == body.json
        task_req == RequestData(user_key, m1, json_body["name"])
        task_content == FillContent(EmptyContent, json_body)
        r == TasksWorker_Create(db, task_req, task_content)
    IN  IF user_key = EmptyStr THEN Handled(FailedBasicAuth, db)
        ELSE IF ~body.ok \/ ~Has(json_body, "name")
        THEN Handled(RespMsg(500, "failed body format error"), db)
        ELSE IF r.code # "SUCCESS"
        THEN Handled(RespMsg(500, "failed create tasklist"), db)
        ELSE Handled(Resp(200, "success", r.name, {}, EmptyContent), r.db)

TasksCreate(db, headers, m1, body) ==
    LET user_key == CheckRequestToken(headers)
        json_body == body.json
        task_req == RequestData(user_key, m1, json_body["name"])
        task_content ==
            FillContent([EmptyContent EXCEPT !.name = json_body["name"]], json_body)
        r == TasksWorker_Create(db, task_req, task_content)
    IN  IF user_key = EmptyStr THEN Handled(FailedBasicAuth, db)
        ELSE IF ~body.ok \/ ~Has(json_body, "name")
        THEN Handled(RespMsg(500, "failed body format error"), db)
        ELSE IF r.code # "SUCCESS"
        THEN Handled(RespMsg(500, "failed create tasklist"), db)
        ELSE Handled(Resp(200, "success", r.name, {}, EmptyContent), r.db)

-----------------------------------------------------------------------------
(* The callers: the requests the handlers are run on *)

Emails == {U, V}

\* the header of a caller that holds a token of the account e, issued now
GoodAuth(e) == <<BasicAuth(EncodeTokenFromEmail(e, TokenTTL, token_secret_key))>>

\* headers that carry no token of this process: no header at all, a token
\* signed with another secret, another scheme, a value of one part
BadAuth ==
    {<<>>, <<BasicAuth(Token(U, TokenTTL, "forged"))>>,
     <<<<"Bearer", <<Token(U, TokenTTL, token_secret_key)>>>>>>, <<<<"Basic">>>>}

AuthHeaders == BadAuth \cup {GoodAuth(e) : e \in Emails}

\* the task handlers are run for one account
TaskAuthHeaders == BadAuth \cup {GoodAuth(U)}

\* names asked for by a create
RequestedNames == {EmptyStr, X}

\* names of the records a store holds
StoredNames(db) == {Map2Content(db[k]).name : k \in Keys(db)}

\* names a path can carry: a requested one and those of the stored records
PathNames(db) == {X} \cup StoredNames(db)

\* names the path of an update can carry: one no record has, and the first
\* name a collision gives
UpdateNames == {<<"y">>, X1}

\* task-list names a task path can carry
PathLists == {X, X1}

\* the same, and the empty name, that the task handlers look for
TaskPathLists == PathLists \cup {EmptyStr}

\* a request without a good credential is answered before its path and body
\* are read: one path and one body stand for all
Of(hd, S) == IF hd \in BadAuth THEN {CHOOSE x \in S : TRUE} ELSE S

Opt(S) == {<<>>} \cup {<<v>> : v \in S}

\* bodies of the creates: unparseable, without a name, and with each requested
\* name, content and a date
CreateBodies ==
    {BadBody, Body(JsonObject(<<>>, <<Content1>>, <<Date1>>))} \cup
    {Body(JsonObject(<<n>>, <<Content1>>, <<Date1>>)) : n \in RequestedNames}

\* bodies of the updates: unparseable, one that names the record, and a new date
UpdateBodies ==
    {BadBody, Body(JsonObject(<<X>>, <<>>, <<>>)), Body(JsonObject(<<>>, <<>>, <<Date2>>))}

WithinBounds(db) == Cardinality(Keys(db)) <= MaxRecords

\* the server threads that run register requests, and a thread at rest
RegThreads == {1, 2}
Idle == [pc |-> "idle", info |-> UserInfo(EmptyStr, EmptyStr, EmptyStr)]

\* the server threads that run worker calls, and a thread that has none yet:
\* op is the worker operation, owner and name its scope, in the content it
\* was given, cur and suffix the locals of Create's probing loop, old the
\* record Revise read, res the response once pc is "done"
RaceThreads == {1, 2}
NoCall ==
    [op |-> "none", pc |-> "start", owner |-> EmptyStr, name |-> EmptyStr,
     in |-> EmptyContent, cur |-> EmptyStr, suffix |-> 0, old |-> <<>>,
     res |-> RespMsg(0, "")]

-----------------------------------------------------------------------------
(* Actions: one per handler.  The two workers share no record, and the     *)
(* handlers of one worker run while the store of the other is empty.       *)

Init ==
    /\ lists = EmptyDB
    /\ tasks = EmptyDB
    /\ res = RespMsg(0, "")
    /\ placed = {}
    /\ now = 0
    /\ users = NoUsers
    /\ regs = [t \in RegThreads |-> Idle]
    /\ succeeded = [e \in Emails |-> <<>>]
    /\ tokens = {}
    /\ loggedOut = {}
    /\ calls = [t \in RaceThreads |-> NoCall]
    /\ writes = <<>>
    /\ scan = <<>>
    /\ created = <<>>

\* a handler of the task-list worker ran and left h
ListsStep(h) ==
    /\ tasks = EmptyDB
    /\ WithinBounds(h.db)
    /\ lists' = h.db
    /\ res' = h.res
    /\ UNCHANGED <<tasks, placed, now, acctVars, sessionVars, raceVars, scanVars>>

\* a handler of the task worker ran and left h
TasksStep(h, born, gone) ==
    /\ lists = EmptyDB
    /\ WithinBounds(h.db)
    /\ tasks' = h.db
    /\ res' = h.res
    /\ placed' = (placed \cup born) \ gone
    /\ UNCHANGED <<lists, now, acctVars, sessionVars, raceVars, scanVars>>

CallTaskListsAll ==
    \E hd \in AuthHeaders : ListsStep(TaskListsAll(lists, hd))

CallTaskListsGet ==
    \E hd \in AuthHeaders : \E m1 \in Of(hd, PathNames(lists)) :
        ListsStep(TaskListsGet(lists, hd, m1))

CallTaskListsUpdate ==
    \E hd \in AuthHeaders : \E m1 \in Of(hd, UpdateNames), body \in Of(hd, UpdateBodies) :
        ListsStep(TaskListsUpdate(lists, hd, m1, body))

CallTaskListsDelete ==
    \E hd \in AuthHeaders : \E m1 \in Of(hd, PathNames(lists)) :
        ListsStep(TaskListsDelete(lists, hd, m1))

CallTaskListsCreate ==
    \E hd \in AuthHeaders : \E body \in Of(hd, CreateBodies) :
        ListsStep(TaskListsCreate(lists, hd, body))

CallTasksAll ==
    \E hd \in TaskAuthHeaders : \E m1 \in Of(hd, TaskPathLists) :
        TasksStep(TasksAll(tasks, hd, m1), {}, {})

CallTasksGet ==
    \E hd \in TaskAuthHeaders : \E m1 \in Of(hd, TaskPathLists), m2 \in Of(hd, PathNames(tasks)) :
        TasksStep(TasksGet(tasks, hd, m1, m2), {}, {})

CallTasksUpdate ==
    \E hd \in TaskAuthHeaders :
        \E m1 \in Of(hd, TaskPathLists), m2 \in Of(hd, UpdateNames), body \in Of(hd, UpdateBodies) :
            TasksStep(TasksUpdate(tasks, hd, m1, m2, body), {}, {})

CallTasksDelete ==
    \E hd \in TaskAuthHeaders : \E m1 \in Of(hd, TaskPathLists), m2 \in Of(hd, PathNames(tasks)) :
        LET h == TasksDelete(tasks, hd, m1, m2)
        IN  TasksStep(h, {},
                      IF h.res.status = 200 THEN {<<CheckRequestToken(hd), m1, m2>>} ELSE {})

CallTasksCreate ==
    \E hd \in TaskAuthHeaders : \E m1 \in Of(hd, TaskPathLists), body \in Of(hd, CreateBodies) :
        LET h == TasksCreate(tasks, hd, m1, body)
        IN  TasksStep(h,
                      IF h.res.status = 200
                      THEN {<<CheckRequestToken(hd), m1, h.res.name>>} ELSE {},
                      {})

Next ==
    \/ CallTaskListsAll
    \/ CallTaskListsGet
    \/ CallTaskListsUpdate
    \/ CallTaskListsDelete
    \/ CallTaskListsCreate
    \/ CallTasksAll
    \/ CallTasksGet
    \/ CallTasksUpdate
    \/ CallTasksDelete
    \/ CallTasksCreate

Spec == Init /\ [][Next]_vars

-----------------------------------------------------------------------------
(* What the claims are checked on: in every reachable state, the handlers  *)
(* are run on requests of the sets below and their outcome is compared     *)
(* with the claim.                                                         *)

\* names a claim asks for or addresses: requested ones, a name that carries a
\* suffix already, and the names of the stored records
ClaimNames(db) == {X, X1} \cup StoredNames(db)

ClaimContents == Opt({EmptyStr, Content1, Content2})
ClaimDates == Opt({EmptyStr, Date1, Date2})

\* the names stored under an owner key
StoredUnder(db, owner) == {n \in StoredNames(db) : DeriveKey(owner, n) \in Keys(db)}

\* name with the suffix k
Suffixed(n, k) == n \o <<"-">> \o to_string(k)

\* the name a create of n is to be given under owner: n when it is free, else
\* n with the smallest suffix k >= 1 that is free
AssignedName(db, owner, n) ==
    LET free(m) == DeriveKey(owner, m) \notin Keys(db)
    IN  IF free(n) THEN n
        ELSE Suffixed(n, CHOOSE k \in 1..(Cardinality(Keys(db)) + 1) :
                            /\ free(Suffixed(n, k))
                            /\ \A j \in 1..(k - 1) : ~free(Suffixed(n, j)))

\* the handlers of one owner: the task-list handlers of an account, or the task
\* handlers of an account and a task-list
OwnerKinds == {<<e>> : e \in Emails} \cup {<<U, l>> : l \in PathLists}

StoreOf(o) == IF Len(o) = 1 THEN lists ELSE tasks
OwnerKey(o) == IF Len(o) = 1 THEN o[1] ELSE DeriveKey(o[1], o[2])
HCreate(o, db, body) ==
    IF Len(o) = 1 THEN TaskListsCreate(db, GoodAuth(o[1]), body)
    ELSE TasksCreate(db, GoodAuth(o[1]), o[2], body)
HGet(o, db, m) ==
    IF Len(o) = 1 THEN TaskListsGet(db, GoodAuth(o[1]), m)
    ELSE TasksGet(db, GoodAuth(o[1]), o[2], m)
HUpdate(o, db, m, body) ==
    IF Len(o) = 1 THEN TaskListsUpdate(db, GoodAuth(o[1]), m, body)
    ELSE TasksUpdate(db, GoodAuth(o[1]), o[2], m, body)
HDelete(o, db, m) ==
    IF Len(o) = 1 THEN TaskListsDelete(db, GoodAuth(o[1]), m)
    ELSE TasksDelete(db, GoodAuth(o[1]), o[2], m)
HAll(o, db) ==
    IF Len(o) = 1 THEN TaskListsAll(db, GoodAuth(o[1]))
    ELSE TasksAll(db, GoodAuth(o[1]), o[2])

\* the owners a state is looked at for: those whose store holds records, and
\* every owner while no store holds any (a store without records is the same
\* store in every state)
ActiveOwners ==
    {o \in OwnerKinds : StoreOf(o) # EmptyDB \/ (lists = EmptyDB /\ tasks = EmptyDB)}

-----------------------------------------------------------------------------
\* C1: a create of the name n under an owner is given n when n is free, and
\* else n-k for the smallest k >= 1 with n-k free; afterwards every earlier
\* record of the owner and the new one can each be queried, and each can be
\* deleted without touching the other.
CollisionResolved(o, n) ==
    LET db     == StoreOf(o)
        before == StoredUnder(db, OwnerKey(o))
        h      == HCreate(o, db, Body(JsonObject(<<n>>, <<>>, <<>>)))
        m      == h.res.name
    IN  /\ h.res.status = 200
        /\ m = AssignedName(db, OwnerKey(o), n)
        /\ HGet(o, h.db, m).res.status = 200
        /\ HDelete(o, h.db, m).res.status = 200
        /\ HDelete(o, h.db, m).db = db
        /\ \A a \in before :
            /\ HGet(o, h.db, a).res.status = 200
            /\ HGet(o, h.db, a).res = HGet(o, db, a).res
            /\ LET d == HDelete(o, h.db, a)
               IN  /\ d.res.status = 200
                   /\ HGet(o, d.db, a).res.status = 500
                   /\ HGet(o, d.db, m).res = HGet(o, h.db, m).res

C1_CollisionResolution ==
    \A o \in ActiveOwners : \A n \in ClaimNames(StoreOf(o)) : CollisionResolved(o, n)

\* the third create of "x" by an account was given "x-2"
C1_Witness ==
    /\ res.status = 200
    /\ res.name = Suffixed(X, 2)
    /\ {DeriveKey(U, X), DeriveKey(U, Suffixed(X, 1)), DeriveKey(U, Suffixed(X, 2))}
           \subseteq Keys(lists)

-----------------------------------------------------------------------------
\* C2: a create with a non-empty owner key and a non-empty name succeeds
\* whatever names are stored under the owner: the probing loop stops at a free
\* key after at most as many renames as the owner has records, and one record
\* is added.
CreateSucceeds(o, n, c, d) ==
    LET db == StoreOf(o)
        h  == HCreate(o, db, Body(JsonObject(<<n>>, c, d)))
        p  == Probe(db, OwnerKey(o), n, n, 0)
    IN  /\ h.res.status = 200
        /\ h.res.msg = "success"
        /\ p.suffix <= Cardinality(StoredUnder(db, OwnerKey(o)))
        /\ DeriveKey(OwnerKey(o), p.name) \notin Keys(db)
        /\ Keys(h.db) = Keys(db) \cup {DeriveKey(OwnerKey(o), h.res.name)}
        /\ Cardinality(Keys(h.db)) = Cardinality(Keys(db)) + 1

C2_CreateNeverFailsOnCollision ==
    \A o \in ActiveOwners : \A n \in ClaimNames(StoreOf(o)), c \in Opt({Content1}), d \in Opt({Date1}) :
        CreateSucceeds(o, n, c, d)

\* a task "x" was created in the task-list "x-1" that held a task "x" already
C2_Witness ==
    /\ res.status = 200
    /\ res.name = Suffixed(X, 1)
    /\ Keys(tasks) = {DeriveKey(DeriveKey(U, X1), X), DeriveKey(DeriveKey(U, X1), Suffixed(X, 1))}

-----------------------------------------------------------------------------
\* C3: every stored task-list and task carries, as its name, the child key it
\* is stored under, and a query of it returns that name; this stays so after
\* a create (renamed or not) and after a revise, whose patch may name the
\* record and set content and date.

\* the child key of a derived key: what follows its last separator
ChildKey(key) ==
    LET i == CHOOSE j \in 1..Len(key) :
                 key[j] = Sep /\ \A l \in (j + 1)..Len(key) : key[l] # Sep
    IN  SubSeq(key, i + 1, Len(key))

NameIsKey(db) == \A k \in Keys(db) : Has(db[k], "name") /\ db[k]["name"] = ChildKey(k)

C3_NameEqualsKey ==
    /\ NameIsKey(lists)
    /\ NameIsKey(tasks)
    /\ \A o \in ActiveOwners :
        LET db == StoreOf(o)
        IN  /\ \A n \in ClaimNames(db) :
                NameIsKey(HCreate(o, db, Body(JsonObject(<<n>>, <<Content1>>, <<>>))).db)
            /\ \A m \in StoredUnder(db, OwnerKey(o)) :
                /\ HGet(o, db, m).res.data.name = m
                /\ \A n \in {<<>>, <<m>>}, c \in Opt({EmptyStr, Content2}), d \in Opt({Date2}) :
                    LET h == HUpdate(o, db, m, Body(JsonObject(n, c, d)))
                    IN  /\ h.res.status = 200
                        /\ NameIsKey(h.db)
                        /\ HGet(o, h.db, m).res.data.name = m

\* a task-list that a collision named "x-1" was revised
C3_Witness ==
    /\ res = RespMsg(200, "success")
    /\ \E k \in Keys(lists) : lists[k]["name"] = X1 /\ lists[k]["date"] = Date2

-----------------------------------------------------------------------------
\* C4: no record is stored under an empty key.  A create with an empty name or
\* an empty owner key fails and leaves the store as it was, and a query, a
\* revise and a delete with an empty owner key or child key fail and leave
\* the store as it was.

\* no component of a derived key is empty
NoEmptyKey(db) ==
    \A k \in Keys(db) :
        /\ Len(k) > 0
        /\ k[1] # Sep
        /\ k[Len(k)] # Sep
        /\ \A i \in 1..(Len(k) - 1) : ~(k[i] = Sep /\ k[i + 1] = Sep)

Refused(h, db) == h.res.status = 500 /\ h.db = db

\* the worker called with the scope data: nothing done
WorkerRefuses(db, Query(_, _), Create(_, _, _), Revise(_, _, _), Delete(_, _), data) ==
    /\ Query(db, data).code # "SUCCESS"
    /\ Delete(db, data).code # "SUCCESS"
    /\ Delete(db, data).db = db
    /\ \A c \in Opt({Content1}) :
        LET in == FillContent(EmptyContent, JsonObject(<<>>, c, <<>>))
        IN  /\ Revise(db, data, in).code # "SUCCESS"
            /\ Revise(db, data, in).db = db
            /\ Create(db, data, [in EXCEPT !.name = data.task_key]).code # "SUCCESS"
            /\ Create(db, data, [in EXCEPT !.name = data.task_key]).db = db

C4_NoEmptyKey ==
    /\ NoEmptyKey(lists)
    /\ NoEmptyKey(tasks)
    /\ \A o \in OwnerKinds \cup {<<U, EmptyStr>>} :
        LET db == StoreOf(o)
        IN  \A m \in IF Len(o) = 2 /\ o[2] = EmptyStr THEN ClaimNames(db) \cup {EmptyStr}
                     ELSE {EmptyStr} :
                /\ Refused(HGet(o, db, m), db)
                /\ Refused(HDelete(o, db, m), db)
                /\ \A c \in Opt({Content1}), d \in Opt({Date1}) :
                    /\ Refused(HCreate(o, db, Body(JsonObject(<<m>>, c, d))), db)
                    /\ Refused(HUpdate(o, db, m, Body(JsonObject(<<>>, c, d))), db)
    /\ \A m \in ClaimNames(lists) \cup {EmptyStr} :
        /\ WorkerRefuses(lists, TaskListsWorker_Query, TaskListsWorker_Create,
                         TaskListsWorker_Revise, TaskListsWorker_Delete,
                         RequestData(EmptyStr, m, m))
        /\ \A l \in PathLists \cup {EmptyStr} :
            WorkerRefuses(tasks, TasksWorker_Query, TasksWorker_Create,
                          TasksWorker_Revise, TasksWorker_Delete,
                          RequestData(EmptyStr, l, m))

\* a create of a task-list with the empty name was refused while the account
\* had task-lists
C4_Witness ==
    /\ res = RespMsg(500, "failed create tasklist")
    /\ tasks = EmptyDB
    /\ \E n \in StoredNames(lists) : Keys(lists) = {DeriveKey(U, n)}

-----------------------------------------------------------------------------
\* C5: a revise of the record stored under a, with a patch whose name differs
\* from a, is answered with the "name can not be changed" failure and the
\* store is left as it was; a patch whose name is a is not answered so, and
\* revises the record when there is one.
NameChangeRefused(o, a, b, c, d) ==
    LET db == StoreOf(o)
        h  == HUpdate(o, db, a, Body(JsonObject(<<b>>, c, d)))
        rejected == RespMsg(500, IF Len(o) = 1 THEN "failed tasklist name can not be changed"
                                 ELSE "failed task name can not be changed")
    IN  IF b # a THEN h.res = rejected /\ h.db = db
        ELSE /\ h.res # rejected
             /\ a \in StoredUnder(db, OwnerKey(o)) => h.res.status = 200

C5_ReviseNameImmutable ==
    \A o \in ActiveOwners :
        \A a \in ClaimNames(StoreOf(o)), b \in ClaimNames(StoreOf(o)) \cup {EmptyStr, <<"y">>},
           c \in {<<Content2>>}, d \in Opt({Date2}) :
            NameChangeRefused(o, a, b, c, d)

\* a patch that names "x" was refused for the task-list "x-1" of an account
C5_Witness ==
    /\ res = RespMsg(500, "failed tasklist name can not be changed")
    /\ DeriveKey(U, X1) \in Keys(lists)
    /\ DeriveKey(V, X1) \in Keys(lists)

-----------------------------------------------------------------------------
\* C6: a successful revise of a stored record with a patch that carries only
\* a date d2 leaves the content and sets the date to d2, a patch that carries
\* only a content c2 sets the content to c2 and leaves the date, and a patch
\* with neither leaves the record as it was; no other record changes.
PatchApplied(o, m, c, d) ==
    LET db  == StoreOf(o)
        key == DeriveKey(OwnerKey(o), m)
        old == Map2Content(db[key])
        h   == HUpdate(o, db, m, Body(JsonObject(<<>>, c, d)))
        new == Map2Content(h.db[key])
    IN  h.res.status = 200 =>
            /\ Keys(h.db) = Keys(db)
            /\ \A k \in Keys(db) \ {key} : h.db[k] = db[k]
            /\ new.name = old.name
            /\ new.content = (IF c = <<>> THEN old.content ELSE c[1])
            /\ new.date = (IF d = <<>> THEN old.date ELSE d[1])

C6_PartialUpdate ==
    \A o \in ActiveOwners : \A m \in StoredUnder(StoreOf(o), OwnerKey(o)) :
        \A c \in ClaimContents, d \in ClaimDates :
            (c = <<>> \/ d = <<>>) => PatchApplied(o, m, c, d)

-----------------------------------------------------------------------------
\* C7: a revise of a name under which the owner has no record fails with
\* NOT_FOUND in the worker and with status 500 in the handler, and the store
\* has the same keys and the same values afterwards.
ReviseAbsentRefused(o, m, c, d) ==
    LET db   == StoreOf(o)
        in   == FillContent(EmptyContent, JsonObject(<<>>, c, d))
        data == IF Len(o) = 1 THEN RequestData(o[1], m, EmptyStr)
                ELSE RequestData(o[1], o[2], m)
        r    == IF Len(o) = 1 THEN TaskListsWorker_Revise(db, data, in)
                ELSE TasksWorker_Revise(db, data, in)
    IN  /\ r.code = "NOT_FOUND"
        /\ r.db = db
        /\ \A n \in {<<>>, <<m>>} :
            LET h == HUpdate(o, db, m, Body(JsonObject(n, c, d)))
            IN  /\ h.res = RespMsg(500, IF Len(o) = 1 THEN "failed update tasklist"
                                        ELSE "failed internal server error")
                /\ h.db = db

C7_ReviseAbsentNoUpsert ==
    \A o \in ActiveOwners :
        \A m \in (ClaimNames(StoreOf(o)) \cup {<<"y">>}) \ StoredUnder(StoreOf(o), OwnerKey(o)) :
            \A c \in Opt({Content2}), d \in Opt({Date2}) : ReviseAbsentRefused(o, m, c, d)

\* a revise of a task-list was refused for want of the record, while the
\* accounts held three other task-lists, none of them revised
C7_Witness ==
    /\ res = RespMsg(500, "failed update tasklist")
    /\ Cardinality(Keys(lists)) = 3
    /\ \A k \in Keys(lists) : lists[k]["date"] = Date1

-----------------------------------------------------------------------------
\* C8: a delete of a stored record succeeds and removes that record and no
\* other; after it a query and a second delete of the name fail with
\* NOT_FOUND, Exists is false, and a create of the name is given the name
\* again and makes the query succeed.  A delete of a name that is not stored
\* fails with NOT_FOUND and leaves the store as it was.
ScopeOf(o, m) ==
    IF Len(o) = 1 THEN RequestData(o[1], m, EmptyStr) ELSE RequestData(o[1], o[2], m)

WQuery(o, db, m) ==
    IF Len(o) = 1 THEN TaskListsWorker_Query(db, ScopeOf(o, m))
    ELSE TasksWorker_Query(db, ScopeOf(o, m))
WDelete(o, db, m) ==
    IF Len(o) = 1 THEN TaskListsWorker_Delete(db, ScopeOf(o, m))
    ELSE TasksWorker_Delete(db, ScopeOf(o, m))
WExists(o, db, m) ==
    IF Len(o) = 1 THEN TaskListsWorker_Exists(db, ScopeOf(o, m))
    ELSE TasksWorker_Exists(db, ScopeOf(o, m))

DeleteAbsentRefused(o, db, m) ==
    /\ WDelete(o, db, m).code = "NOT_FOUND"
    /\ HDelete(o, db, m).res.status = 500
    /\ HDelete(o, db, m).db = db

DeleteThenQuery(o, m) ==
    LET db  == StoreOf(o)
        key == DeriveKey(OwnerKey(o), m)
        d   == HDelete(o, db, m)
    IN  IF m \in StoredUnder(db, OwnerKey(o))
        THEN /\ WDelete(o, db, m).code = "SUCCESS"
             /\ d.res = RespMsg(200, "success")
             /\ Keys(d.db) = Keys(db) \ {key}
             /\ \A k \in Keys(d.db) : d.db[k] = db[k]
             /\ WQuery(o, d.db, m).code = "NOT_FOUND"
             /\ ~WExists(o, d.db, m)
             /\ HGet(o, d.db, m).res.status = 500
             /\ DeleteAbsentRefused(o, d.db, m)
             /\ LET h == HCreate(o, d.db, Body(JsonObject(<<m>>, <<>>, <<>>)))
                IN  /\ h.res.name = m
                    /\ WExists(o, h.db, m)
                    /\ HGet(o, h.db, m).res.status = 200
        ELSE DeleteAbsentRefused(o, db, m)

C8_DeleteThenQuery ==
    \A o \in ActiveOwners : \A m \in ClaimNames(StoreOf(o)) \cup {<<"y">>} : DeleteThenQuery(o, m)

\* a delete of a task-list was refused for want of the record, after the
\* task-list "x" of the account had been deleted: its "x-1" is still there
C8_Witness ==
    /\ res = RespMsg(500, "failed delete tasklist")
    /\ DeriveKey(U, X1) \in Keys(lists)
    /\ DeriveKey(U, X) \notin Keys(lists)

-----------------------------------------------------------------------------
\* C9: after a create that succeeds and is given the name m, a query of m
\* under the same owner succeeds and returns the name m and the content and
\* the date of the create's body (empty when the body has none), whether m is
\* the name asked for or a renamed one; a query leaves the store as it was.
RoundTrip(o, n, c, d) ==
    LET db == StoreOf(o)
        h  == HCreate(o, db, Body(JsonObject(<<n>>, c, d)))
        g  == HGet(o, h.db, h.res.name)
    IN  h.res.status = 200 =>
            /\ g.res.status = 200
            /\ g.res.data = Content(h.res.name,
                                    IF c = <<>> THEN EmptyStr ELSE c[1],
                                    IF d = <<>> THEN EmptyStr ELSE d[1])
            /\ g.db = h.db

C9_CreateQueryRoundTrip ==
    \A o \in ActiveOwners :
        /\ \A n \in ClaimNames(StoreOf(o)), c \in Opt({EmptyStr, Content2}), d \in Opt({Date2}) :
            RoundTrip(o, n, c, d)
        /\ \A m \in ClaimNames(StoreOf(o)) \cup {EmptyStr} :
            HGet(o, StoreOf(o), m).db = StoreOf(o)

\* a query returned the task-list that a create of "x" had named "x-1"
C9_Witness ==
    /\ res.status = 200
    /\ res.data = Content(X1, Content1, Date1)
    /\ DeriveKey(U, X) \in Keys(lists)
    /\ DeriveKey(U, X1) \in Keys(lists)

-----------------------------------------------------------------------------
\* C10: the tasks of two task-lists of one account are apart.  The names that
\* TasksAll returns for a task-list, and the names TasksGet answers for under
\* it, are the names of the tasks created under that task-list and not since
\* deleted; and a create, a revise or a delete of a task t under another
\* task-list leaves the tasks of this one, a task t among them, as they were.

\* the names of the tasks created under the task-list l of the account u and
\* not deleted since
PlacedUnder(u, l) == {p[3] : p \in {q \in placed : q[1] = u /\ q[2] = l}}

\* the handlers see the tasks of l in db as they are in the store now
SameTasks(db, l) ==
    /\ TasksAll(db, GoodAuth(U), l).res = TasksAll(tasks, GoodAuth(U), l).res
    /\ \A t \in ClaimNames(tasks) :
        TasksGet(db, GoodAuth(U), l, t).res = TasksGet(tasks, GoodAuth(U), l, t).res
    /\ \A t \in PlacedUnder(U, l) :
        LET k == DeriveKey(DeriveKey(U, l), t)
        IN  k \in Keys(db) /\ db[k] = tasks[k]

Isolated(l1, l2) ==
    /\ TasksAll(tasks, GoodAuth(U), l2).res.names = PlacedUnder(U, l2)
    /\ \A t \in ClaimNames(tasks) :
        /\ TasksGet(tasks, GoodAuth(U), l2, t).res.status = 200 <=> t \in PlacedUnder(U, l2)
        /\ SameTasks(TasksCreate(tasks, GoodAuth(U), l1,
                                 Body(JsonObject(<<t>>, <<Content2>>, <<>>))).db, l2)
        /\ SameTasks(TasksUpdate(tasks, GoodAuth(U), l1, t,
                                 Body(JsonObject(<<>>, <<Content2>>, <<Date2>>))).db, l2)
        /\ SameTasks(TasksDelete(tasks, GoodAuth(U), l1, t).db, l2)

C10_TaskScopingIsolation ==
    \A l1 \in PathLists, l2 \in PathLists : l1 # l2 => Isolated(l1, l2)

\* TasksAll returned the one task of the task-list "x" while the task-list
\* "x-1" held a task of the same name and a task named "x-1"
C10_Witness ==
    /\ res.status = 200
    /\ res.names = {X}
    /\ Keys(tasks) = {DeriveKey(DeriveKey(U, X), X), DeriveKey(DeriveKey(U, X1), X),
                      DeriveKey(DeriveKey(U, X1), X1)}

-----------------------------------------------------------------------------
\* C11: a task operation (list-all, get, create, revise, delete) of a caller
\* with a good credential and the empty task-list name fails and leaves the
\* store as it was.  Get, revise and delete answer "failed need tasklist
\* name" whatever the task name, the body and the store are; list-all and
\* create answer 500 on the worker's refusal.  Every worker operation refuses
\* the empty task-list name as invalid input, the same with any store.
MissingTaskList == RespMsg(500, "failed need tasklist name")

WorkerNeedsTaskList(e, t) ==
    LET data == RequestData(e, EmptyStr, t)
        in   == Content(t, Content1, Date1)
        refused(r) == r.code = "INVALID_INPUT" /\ r.db = tasks
    IN  /\ refused(TasksWorker_GetAllTasksName(tasks, data))
        /\ refused(TasksWorker_Query(tasks, data))
        /\ refused(TasksWorker_Create(tasks, data, in))
        /\ refused(TasksWorker_Revise(tasks, data, in))
        /\ refused(TasksWorker_Delete(tasks, data))
        /\ ~TasksWorker_Exists(tasks, data)
        /\ TasksWorker_Query(EmptyDB, data).code = TasksWorker_Query(tasks, data).code
        /\ TasksWorker_Delete(EmptyDB, data).code = TasksWorker_Delete(tasks, data).code

NeedsTaskList(e, t) ==
    /\ TasksGet(tasks, GoodAuth(e), EmptyStr, t) = Handled(MissingTaskList, tasks)
    /\ TasksDelete(tasks, GoodAuth(e), EmptyStr, t) = Handled(MissingTaskList, tasks)
    /\ \A body \in UpdateBodies \cup CreateBodies :
        TasksUpdate(tasks, GoodAuth(e), EmptyStr, t, body) = Handled(MissingTaskList, tasks)
    /\ Refused(TasksAll(tasks, GoodAuth(e), EmptyStr), tasks)
    /\ \A c \in Opt({Content1}), d \in Opt({Date1}) :
        Refused(TasksCreate(tasks, GoodAuth(e), EmptyStr, Body(JsonObject(<<t>>, c, d))), tasks)
    /\ WorkerNeedsTaskList(e, t)

-----------------------------------------------------------------------------
\* C12: every task-list handler, every task handler and logout answer a
\* request without a good credential (no Authorization header, a value that
\* is not "Basic" and one more part, a token that does not resolve to a
\* non-empty email) with the one "failed basic auth" response, whatever the
\* path, the body and the store are, and leave the store as it was.

\* headers without a good credential: those of BadAuth, a value of three
\* parts, a scheme in lower case, an empty credential, a malformed token, a
\* token for the empty email, and a token that has expired
ClaimBadAuth ==
    BadAuth \cup
    {<<<<"Basic", <<Token(U, now + TokenTTL, token_secret_key)>>, <<>>>>>>,
     <<<<"basic", <<Token(U, now + TokenTTL, token_secret_key)>>>>>>,
     <<<<"Basic", <<>>>>>>,
     <<BasicAuth(EmptyToken)>>,
     <<BasicAuth(Token(EmptyStr, now + TokenTTL, token_secret_key))>>,
     <<BasicAuth(Token(U, now - 1, token_secret_key))>>}

Unauthenticated(hd) ==
    LET denied(h, db) == h = Handled(FailedBasicAuth, db)
    IN  /\ CheckRequestToken(hd) = EmptyStr
        /\ UsersLogout(hd) = FailedBasicAuth
        /\ denied(TaskListsAll(lists, hd), lists)
        /\ \A l \in ClaimNames(lists) \cup {EmptyStr} :
            /\ denied(TaskListsGet(lists, hd, l), lists)
            /\ denied(TaskListsDelete(lists, hd, l), lists)
            /\ \A body \in UpdateBodies \cup CreateBodies :
                denied(TaskListsUpdate(lists, hd, l, body), lists)
        /\ \A body \in CreateBodies : denied(TaskListsCreate(lists, hd, body), lists)
        /\ \A l \in TaskPathLists :
            /\ denied(TasksAll(tasks, hd, l), tasks)
            /\ \A body \in CreateBodies : denied(TasksCreate(tasks, hd, l, body), tasks)
            /\ \A t \in ClaimNames(tasks) \cup {EmptyStr} :
                /\ denied(TasksGet(tasks, hd, l, t), tasks)
                /\ denied(TasksDelete(tasks, hd, l, t), tasks)
                /\ \A body \in UpdateBodies :
                    denied(TasksUpdate(tasks, hd, l, t, body), tasks)

C12_UniformAuthFailure == \A hd \in ClaimBadAuth : Unauthenticated(hd)

\* a request without a good credential was refused while the accounts held three
\* task-lists
C12_Witness ==
    /\ res = FailedBasicAuth
    /\ Cardinality(Keys(lists)) = 3

-----------------------------------------------------------------------------
(* Accounts: register requests run on the threads of the server, each     *)
(* call of the directory a step of its own, and logins.                    *)

N1 == <<"n1">>
N2 == <<"n2">>
P1 == <<"p1">>
P2 == <<"p2">>

\* the accounts that register requests ask for
AskedAccounts == {UserInfo(N1, U, P1), UserInfo(N2, U, P2), UserInfo(N1, V, P1)}

PasswordAuth(email, passwd) == <<BasicAuthPassword(email, passwd)>>

\* register requests: one for each asked account, and one without a header,
\* one without a password, one whose body does not parse, one without a name
RegisterRequests ==
    {<<PasswordAuth(a.email, a.passwd), Body(JsonObject(<<a.name>>, <<>>, <<>>))>> :
        a \in AskedAccounts} \cup
    {<<<<>>, Body(JsonObject(<<N1>>, <<>>, <<>>))>>,
     <<PasswordAuth(U, EmptyStr), Body(JsonObject(<<N1>>, <<>>, <<>>))>>,
     <<PasswordAuth(U, P1), BadBody>>,
     <<PasswordAuth(U, P1), Body(JsonObject(<<>>, <<Content1>>, <<>>))>>}

LoginHeaders ==
    {PasswordAuth(e, p) : e \in Emails, p \in {P1, P2}} \cup
    {<<>>, PasswordAuth(U, EmptyStr), <<<<"Basic", <<U>>>>>>}

\* a register request is taken up by the thread t and runs to its answer, or
\* past DuplicatedEmail
RegisterBegin(t) ==
    /\ regs[t].pc = "idle"
    /\ \E rq \in RegisterRequests :
        LET c == RegisterRequest(rq[1], rq[2])
        IN  IF c.failed
            THEN res' = c.res /\ UNCHANGED regs
            ELSE IF Users_DuplicatedEmail(users, c.info)
            THEN res' = RespMsg(500, "failed duplicated email") /\ UNCHANGED regs
            ELSE /\ regs' = [regs EXCEPT ![t] = [pc |-> "create", info |-> c.info]]
                 /\ UNCHANGED res
    /\ UNCHANGED <<lists, tasks, placed, now, users, succeeded, sessionVars, raceVars, scanVars>>

\* Create looks for the email
RegisterCreate(t) ==
    /\ regs[t].pc = "create"
    /\ IF Users_DuplicatedEmail(users, regs[t].info)
       THEN /\ res' = RespMsg(500, "failed create user")
            /\ regs' = [regs EXCEPT ![t] = Idle]
       ELSE /\ regs' = [regs EXCEPT ![t].pc = "put"]
            /\ UNCHANGED res
    /\ UNCHANGED <<lists, tasks, placed, now, users, succeeded, sessionVars, raceVars, scanVars>>

\* Create persists the account, and the request is answered
RegisterPut(t) ==
    /\ regs[t].pc = "put"
    /\ users' = Users_Put(users, regs[t].info)
    /\ res' = RespMsg(200, "success")
    /\ succeeded' = [succeeded EXCEPT ![regs[t].info.email] = Append(@, regs[t].info)]
    /\ regs' = [regs EXCEPT ![t] = Idle]
    /\ UNCHANGED <<lists, tasks, placed, now, sessionVars, raceVars, scanVars>>

CallUsersLogin ==
    /\ \E hd \in LoginHeaders : res' = UsersLogin(users, hd)
    /\ UNCHANGED <<lists, tasks, placed, now, acctVars, sessionVars, raceVars, scanVars>>

AccountNext ==
    \/ \E t \in RegThreads : RegisterBegin(t)
    \/ \E t \in RegThreads : RegisterCreate(t)
    \/ \E t \in RegThreads : RegisterPut(t)
    \/ CallUsersLogin

AccountSpec == Init /\ [][AccountNext]_vars

-----------------------------------------------------------------------------
\* C15: an email is in the directory exactly when a register request with it
\* has been answered 200; no email has two register requests answered 200; and
\* a register request with an email of the directory is refused and leaves the
\* account, its name and its password, as the first request stored it.
DuplicateRefused(a) ==
    LET h == UsersRegister(users, PasswordAuth(a.email, a.passwd),
                           Body(JsonObject(<<a.name>>, <<>>, <<>>)))
    IN  a.email \in DOMAIN users =>
            /\ h.res = RespMsg(500, "failed duplicated email")
            /\ h.db = users

C15_EmailUnique ==
    /\ \A e \in Emails :
        /\ Users_DuplicatedEmail(users, UserInfo(EmptyStr, e, EmptyStr)) <=> succeeded[e] # <<>>
        /\ Len(succeeded[e]) <= 1
        /\ succeeded[e] # <<>> =>
            users[e] = [name |-> succeeded[e][1].name, passwd |-> succeeded[e][1].passwd]
    /\ \A a \in AskedAccounts : DuplicateRefused(a)

-----------------------------------------------------------------------------
\* C16: a login with a non-empty email and password is answered 200 with a
\* token for the email exactly when the password is the one that the email was
\* registered with; every other such login, the email unknown or the password
\* wrong, is answered with the one response "failed user login".
Registered(e, p) == succeeded[e] # <<>> /\ succeeded[e][Len(succeeded[e])].passwd = p

LoginDecided(e, p) ==
    LET r == UsersLogin(users, PasswordAuth(e, p))
    IN  IF Registered(e, p)
        THEN r = RespToken(200, "success", Token(e, now + TokenTTL, token_secret_key))
        ELSE r = RespMsg(500, "failed user login")

C16_LoginUniformFailure ==
    \A e \in Emails, p \in {P1, P2, <<"p3">>} : LoginDecided(e, p)

\* a login was refused while one email had an account and the other had none
C16_Witness ==
    /\ res = RespMsg(500, "failed user login")
    /\ DOMAIN users = {U}

-----------------------------------------------------------------------------
(* Sessions: two accounts are registered; callers log in and keep the      *)
(* tokens, call with them, log out, and time passes.                       *)

\* callers keep at most this many tokens
MaxTokens == 1

\* the clock is moved at most this many times
MaxTicks == 3

\* the clock moves by a second or by the lifetime of a token
Ticks == {1, TokenTTL}
TicksTaken == (now \div TokenTTL) + (now % TokenTTL)

SessionInit ==
    /\ lists = EmptyDB
    /\ tasks = EmptyDB
    /\ res = RespMsg(0, "")
    /\ placed = {}
    /\ now = 0
    /\ users = Users_Put(Users_Put(NoUsers, UserInfo(N1, U, P1)), UserInfo(N2, V, P2))
    /\ regs = [t \in RegThreads |-> Idle]
    /\ succeeded = [e \in Emails |-> <<IF e = U THEN UserInfo(N1, U, P1)
                                       ELSE UserInfo(N2, V, P2)>>]
    /\ tokens = {}
    /\ loggedOut = {}
    /\ calls = [t \in RaceThreads |-> NoCall]
    /\ writes = <<>>
    /\ scan = <<>>
    /\ created = <<>>

\* the headers of the callers: the tokens they hold, and one that is forged
SessionHeaders ==
    {<<BasicAuth(s.token)>> : s \in tokens} \cup
    {<<>>, <<BasicAuth(Token(U, now + TokenTTL, "forged"))>>}

\* a login; the caller keeps the token of a login that succeeds
SessionLogin ==
    /\ \E hd \in LoginHeaders :
        LET r == UsersLogin(users, hd)
        IN  /\ res' = r
            /\ tokens' = IF r.status = 200 /\ Cardinality(tokens) < MaxTokens
                         THEN tokens \cup {[token |-> r.token, at |-> now,
                                            email |-> hd[1][2][1]]}
                         ELSE tokens
    /\ UNCHANGED <<lists, tasks, placed, now, acctVars, loggedOut, raceVars, scanVars>>

SessionLogout ==
    /\ \E hd \in SessionHeaders :
        LET r == UsersLogout(hd)
        IN  /\ res' = r
            /\ loggedOut' = IF r.status = 200 THEN loggedOut \cup {hd[1][2][1]}
                            ELSE loggedOut
    /\ UNCHANGED <<lists, tasks, placed, now, acctVars, tokens, raceVars, scanVars>>

\* a call of a handler that asks for a token
SessionCall ==
    /\ \E hd \in SessionHeaders :
        LET h == TaskListsAll(lists, hd)
        IN  res' = h.res /\ lists' = h.db
    /\ UNCHANGED <<tasks, placed, now, acctVars, sessionVars, raceVars, scanVars>>

Tick ==
    /\ TicksTaken < MaxTicks
    /\ \E d \in Ticks : now' = now + d
    /\ UNCHANGED <<lists, tasks, res, placed, acctVars, sessionVars, raceVars, scanVars>>

SessionNext ==
    \/ SessionLogin
    \/ SessionLogout
    \/ SessionCall
    \/ Tick

SessionSpec == SessionInit /\ [][SessionNext]_vars

-----------------------------------------------------------------------------
\* C13: a token that a login of the email e issued at the time t resolves to e
\* at every time before t + TokenTTL and to the empty string at every time
\* after t + TokenTTL, and never to another email; a token signed with another
\* secret and a malformed token resolve to the empty string at every time.
Resolve(token) == CheckRequestToken(<<BasicAuth(token)>>)

TokenLifetime(s) ==
    /\ now < s.at + TokenTTL => Resolve(s.token) = s.email
    /\ now > s.at + TokenTTL => Resolve(s.token) = EmptyStr
    /\ Resolve(s.token) \in {s.email, EmptyStr}
    /\ Resolve([s.token EXCEPT !.secret = "forged"]) = EmptyStr
    /\ DecodeEmailFromToken(s.token, "forged") = EmptyStr

C13_TokenLifetime ==
    /\ \A s \in tokens : TokenLifetime(s)
    /\ Resolve(EmptyToken) = EmptyStr
    /\ \A e \in Emails : Resolve(Token(e, now + TokenTTL, "forged")) = EmptyStr

\* a call was refused, and the token that a caller holds has expired a second ago
C13_Witness ==
    /\ res = FailedBasicAuth
    /\ \E s \in tokens : s.at > 0 /\ now = s.at + TokenTTL + 1

-----------------------------------------------------------------------------
\* C14: a token that a logout answered 200 was called with is refused by
\* every later call: it resolves to no email, and a handler called with it
\* answers "failed basic auth".
C14_LogoutRevokes ==
    \A token \in loggedOut :
        /\ Resolve(token) = EmptyStr
        /\ TaskListsAll(lists, <<BasicAuth(token)>>).res = FailedBasicAuth
        /\ UsersLogout(<<BasicAuth(token)>>) = FailedBasicAuth

-----------------------------------------------------------------------------
(* Concurrent worker calls.  The server runs each request on a thread of   *)
(* its pool, and the store serialises single operations only: a call of    *)
(* the worker is a sequence of store operations that the operations of     *)
(* another thread's call fall between.  Two threads run one task-list call *)
(* each, over a store that is empty or holds the task-list x of U.         *)

StoredX == Worker_Create(EmptyDB, U, Content(X, Content1, Date1)).db

RaceInit ==
    /\ lists \in {EmptyDB, StoredX}
    /\ tasks = EmptyDB
    /\ res = RespMsg(0, "")
    /\ placed = {}
    /\ now = 0
    /\ users = NoUsers
    /\ regs = [t \in RegThreads |-> Idle]
    /\ succeeded = [e \in Emails |-> <<>>]
    /\ tokens = {}
    /\ loggedOut = {}
    /\ calls = [t \in RaceThreads |-> NoCall]
    /\ writes = <<>>
    /\ scan = <<>>
    /\ created = <<>>

\* the calls a thread takes up: a create of x, a patch of the content or of
\* the date of x, a delete of x, for either account
RaceCalls ==
    {[NoCall EXCEPT !.op = "create", !.owner = o, !.name = X, !.in = c] :
        o \in Emails, c \in {Content(X, Content1, Date1), Content(X, Content2, Date2)}}
    \cup
    {[NoCall EXCEPT !.op = "revise", !.owner = o, !.name = X, !.in = c] :
        o \in Emails, c \in {Content(EmptyStr, Content2, EmptyStr),
                             Content(EmptyStr, EmptyStr, Date2)}}
    \cup
    {[NoCall EXCEPT !.op = "delete", !.owner = o, !.name = X] : o \in Emails}

Returned(t, r) ==
    /\ calls' = [calls EXCEPT ![t].pc = "done", ![t].res = r]
    /\ res' = r

\* the handler has authenticated the caller and parsed the body, and enters
\* the worker; Create and Revise and Delete refuse an empty scope before any
\* store operation
RaceBegin(t) ==
    /\ calls[t].pc = "start"
    /\ \E c \in RaceCalls :
        calls' = [calls EXCEPT ![t] =
                    [c EXCEPT !.pc = IF c.op = "create" THEN "probe"
                                     ELSE IF c.op = "revise" THEN "read"
                                     ELSE "delete",
                              !.cur = c.name]]
    /\ UNCHANGED <<lists, tasks, res, placed, now, acctVars, sessionVars, writes, scanVars>>

\* Create, one turn of the probing loop: one Exists on the store
CreateProbe(t) ==
    /\ calls[t].pc = "probe"
    /\ LET c == calls[t]
       IN  IF Worker_Exists(lists, c.owner, c.cur)
           THEN calls' = [calls EXCEPT ![t].cur = Rename(c.name, c.suffix),
                                       ![t].suffix = c.suffix + 1]
           ELSE calls' = [calls EXCEPT ![t].pc = "put"]
    /\ UNCHANGED <<lists, tasks, res, placed, now, acctVars, sessionVars, writes, scanVars>>


\* CreatePut with a slip: the record goes under the requested name's key
CreatePut_RequestedKey(t) ==
    /\ calls[t].pc = "put"
    /\ LET c == calls[t]
       IN  /\ lists' = DBPut(lists, DeriveKey(c.owner, c.name),
                             Content2Map([c.in EXCEPT !.name = c.cur]))
           /\ Returned(t, Resp(200, "success", c.cur, {}, EmptyContent))
    /\ writes' = Append(writes, t)
    /\ UNCHANGED <<tasks, placed, now, acctVars, sessionVars, scanVars>>

\* Create, after the loop: the record is put under the key found free, and
\* the handler answers with the assigned name
CreatePut(t) ==
    /\ calls[t].pc = "put"
    /\ LET c == calls[t]
       IN  /\ lists' = DBPut(lists, DeriveKey(c.owner, c.cur),
                             Content2Map([c.in EXCEPT !.name = c.cur]))
           /\ Returned(t, Resp(200, "success", c.cur, {}, EmptyContent))
    /\ writes' = Append(writes, t)
    /\ UNCHANGED <<tasks, placed, now, acctVars, sessionVars, scanVars>>

\* Revise, first store operation: the record is read, or found absent
ReviseRead(t) ==
    /\ calls[t].pc = "read"
    /\ LET c == calls[t]
           key == DeriveKey(c.owner, c.name)
       IN  IF ~DBExists(lists, key)
           THEN Returned(t, RespMsg(500, "failed update tasklist"))
           ELSE calls' = [calls EXCEPT ![t].pc = "write", ![t].old = DBGet(lists, key)]
                /\ UNCHANGED res
    /\ UNCHANGED <<lists, tasks, placed, now, acctVars, sessionVars, writes, scanVars>>


\* ReviseWrite with a slip: the patch is merged into the record stored now
ReviseWrite_Reread(t) ==
    /\ calls[t].pc = "write"
    /\ LET c == calls[t]
           key == DeriveKey(c.owner, c.name)
       IN  /\ DBExists(lists, key)
           /\ lists' = DBPut(lists, key, Merge(DBGet(lists, key), Content2Map(c.in)))
           /\ Returned(t, RespMsg(200, "success"))
    /\ writes' = Append(writes, t)
    /\ UNCHANGED <<tasks, placed, now, acctVars, sessionVars, scanVars>>

\* Revise, second store operation: the record read, with the patch merged
\* in, is put back
ReviseWrite(t) ==
    /\ calls[t].pc = "write"
    /\ LET c == calls[t]
           key == DeriveKey(c.owner, c.name)
       IN  /\ lists' = DBPut(lists, key, Merge(c.old, Content2Map(c.in)))
           /\ Returned(t, RespMsg(200, "success"))
    /\ writes' = Append(writes, t)
    /\ UNCHANGED <<tasks, placed, now, acctVars, sessionVars, scanVars>>

\* Delete: one store operation
DeleteStep(t) ==
    /\ calls[t].pc = "delete"
    /\ LET c == calls[t]
           key == DeriveKey(c.owner, c.name)
       IN  IF ~DBExists(lists, key)
           THEN /\ Returned(t, RespMsg(500, "failed delete tasklist"))
                /\ UNCHANGED <<lists, writes>>
           ELSE /\ lists' = DBDelete(lists, key)
                /\ Returned(t, RespMsg(200, "success"))
                /\ writes' = Append(writes, t)
    /\ UNCHANGED <<tasks, placed, now, acctVars, sessionVars, scanVars>>

RaceNext ==
    \E t \in RaceThreads :
        \/ RaceBegin(t)
        \/ CreateProbe(t)
        \/ CreatePut(t)
        \/ ReviseRead(t)
        \/ ReviseWrite(t)
        \/ DeleteStep(t)

RaceSpec == RaceInit /\ [][RaceNext]_vars

\* both threads have returned 200 from calls op1 and op2 on the same name
\* under the same owner
BothSucceeded(t1, op1, t2, op2) ==
    /\ t1 # t2
    /\ calls[t1].op = op1 /\ calls[t2].op = op2
    /\ calls[t1].pc = "done" /\ calls[t2].pc = "done"
    /\ calls[t1].res.status = 200 /\ calls[t2].res.status = 200
    /\ calls[t1].owner = calls[t2].owner
    /\ calls[t1].name = calls[t2].name

\* the record a create wrote, and the keys of its owner that hold it
Created(t) == Content2Map([calls[t].in EXCEPT !.name = calls[t].res.name])
HeldAt(t) ==
    {k \in ListByPrefix(lists, calls[t].owner \o <<Sep>>) : DBGet(lists, k) = Created(t)}

\* the thread that wrote first and the thread that wrote last
FirstWriter == writes[1]
LastWriter == writes[Len(writes)]

CreateRaceOutcome ==
    \A t1, t2 \in RaceThreads :
        BothSucceeded(t1, "create", t2, "create") =>
            LET k1 == DeriveKey(calls[t1].owner, calls[t1].res.name)
                k2 == DeriveKey(calls[t2].owner, calls[t2].res.name)
            IN  IF k1 = k2
                THEN /\ DBExists(lists, k1)
                     /\ DBGet(lists, k1) = Created(LastWriter)
                     /\ HeldAt(t1) \cup HeldAt(t2) = {k1}
                ELSE /\ DBExists(lists, k1) /\ DBGet(lists, k1) = Created(t1)
                     /\ DBExists(lists, k2) /\ DBGet(lists, k2) = Created(t2)

\* C17: Create is a check-then-act that is not atomic: whenever two
\* concurrent Create calls for the same name under the same owner have both
\* succeeded with the same assigned name, both wrote the one key they saw
\* free, and the store holds one record for the two, that of the call that
\* wrote last; when the assigned names differ, each record is stored under
\* its own key.
C17_CreateRace == CreateRaceOutcome

\* both creates of x by U were answered 200 with the assigned name x-1, they
\* carried different contents, and the record of the first writer is gone
C17_Witness ==
    /\ BothSucceeded(1, "create", 2, "create")
    /\ calls[1].owner = U
    /\ calls[1].res.name = X1 /\ calls[2].res.name = X1
    /\ Created(1) # Created(2)
    /\ HeldAt(FirstWriter) = {}
    /\ HeldAt(LastWriter) = {DeriveKey(U, X1)}

ReviseRaceOutcome ==
    \A t1, t2 \in RaceThreads :
        /\ BothSucceeded(t1, "revise", t2, "revise") /\ t1 = FirstWriter =>
            LET key == DeriveKey(calls[t1].owner, calls[t1].name)
                p1 == Content2Map(calls[t1].in)
                p2 == Content2Map(calls[t2].in)
            IN  /\ DBExists(lists, key)
                /\ DBGet(lists, key) = Merge(calls[t2].old, p2)
                /\ calls[t2].old \in {calls[t1].old, Merge(calls[t1].old, p1)}
        /\ BothSucceeded(t1, "revise", t2, "delete") =>
            LET key == DeriveKey(calls[t1].owner, calls[t1].name)
            IN  IF LastWriter = t1
                THEN /\ DBExists(lists, key)
                     /\ DBGet(lists, key) = Merge(calls[t1].old, Content2Map(calls[t1].in))
                ELSE ~DBExists(lists, key)

\* C18: Revise is a read-modify-write that is not atomic: whenever two
\* concurrent Revise calls on the same address have both succeeded, the
\* stored record is the record the last writer read with the last writer's
\* patch merged in, and the record it read either has the first writer's
\* patch or is the record the first writer read too, in which case the first
\* patch is lost; whenever a Revise and a Delete of the same address have
\* both succeeded and the Revise wrote last, the deleted record is stored
\* again.
C18_ReviseRace == ReviseRaceOutcome

\* a content patch and a date patch of x were both answered 200, and the
\* stored record carries the patch of the last writer only
C18_Witness ==
    /\ BothSucceeded(1, "revise", 2, "revise")
    /\ calls[1].in # calls[2].in
    /\ calls[FirstWriter].old = calls[LastWriter].old
    /\ DBGet(lists, DeriveKey(calls[1].owner, X)) =
         Merge(calls[FirstWriter].old, Content2Map(calls[LastWriter].in))
    /\ DBGet(lists, DeriveKey(calls[1].owner, X)) #
         Merge(Merge(calls[FirstWriter].old, Content2Map(calls[FirstWriter].in)),
               Content2Map(calls[LastWriter].in))

\* a delete of x and a patch of x were both answered 200, and x is stored
RecreatedAfterDelete ==
    /\ BothSucceeded(1, "revise", 2, "delete")
    /\ DBExists(lists, DeriveKey(calls[1].owner, X))

-----------------------------------------------------------------------------
(* Listings.  Both workers hold records at once, of both accounts, and the *)
(* order in which the store scans its keys is followed: a key that is put  *)
(* for the first time goes last, a key that is deleted leaves.             *)

Range(s) == {s[i] : i \in 1..Len(s)}

NoDuplicate(s) == \A i, j \in 1..Len(s) : s[i] = s[j] => i = j

Without(s, gone) == LET Kept(x) == x \notin gone IN SelectSeq(s, Kept)

RECURSIVE SetToSeq(_)
SetToSeq(S) ==
    IF S = {} THEN <<>>
    ELSE LET x == CHOOSE y \in S : TRUE IN <<x>> \o SetToSeq(S \ {x})

\* the scan order after the keys of the store went from before to after
ScanAfter(order, before, after) ==
    Without(order, before \ after) \o SetToSeq(after \ before)

\* ListByPrefix as the ordered sequence it is: the keys of db that start with
\* prefix, in the order of the scan
ScanByPrefix(db, order, prefix) ==
    LET Under(k) == k \in ListByPrefix(db, prefix) IN SelectSeq(order, Under)

\* the sequence of names a listing answers with: the child keys under the
\* owner in the order of the scan, as far as the worker returned them
NamesInOrder(db, order, owner, names) ==
    LET prefix == owner \o <<Sep>>
        keys == ScanByPrefix(db, order, prefix)
        children == [i \in 1..Len(keys) |-> SubSeq(keys[i], Len(prefix) + 1, Len(keys[i]))]
        Returned_(n) == n \in names
    IN  SelectSeq(children, Returned_)

\* the response of a listing, its names in order, and a response that
\* carries no names
Listed(h, db, owner) ==
    [h.res EXCEPT !.names = NamesInOrder(db, scan, owner, h.res.names)]
Plain(h) == [h.res EXCEPT !.names = <<>>]

ScanBodies == {Body(JsonObject(<<X>>, <<Content1>>, <<Date1>>))}

\* the account and task-lists whose tasks are created, deleted and listed
ScanScopes == {<<U, X>>, <<U, X1>>}

\* a handler ran and left the task-lists hl and the tasks ht
ScanStep(hl, ht, r) ==
    /\ Cardinality(Keys(hl)) + Cardinality(Keys(ht)) <= MaxScan
    /\ lists' = hl
    /\ tasks' = ht
    /\ res' = r
    /\ scan' = ScanAfter(scan, Keys(lists) \cup Keys(tasks), Keys(hl) \cup Keys(ht))
    /\ UNCHANGED <<placed, now, acctVars, sessionVars, raceVars>>

ScanTaskListsCreate ==
    \E e \in Emails, body \in ScanBodies :
        LET h == TaskListsCreate(lists, GoodAuth(e), body)
        IN  /\ ScanStep(h.db, tasks, Plain(h))
            /\ created' = IF h.res.status = 200
                          THEN Append(created, <<e, h.res.name>>) ELSE created

ScanTaskListsDelete ==
    \E e \in Emails, m1 \in PathNames(lists) :
        LET h == TaskListsDelete(lists, GoodAuth(e), m1)
        IN  /\ ScanStep(h.db, tasks, Plain(h))
            /\ created' = IF h.res.status = 200
                          THEN Without(created, {<<e, m1>>}) ELSE created

ScanTaskListsAll ==
    \E e \in Emails :
        LET h == TaskListsAll(lists, GoodAuth(e))
        IN  /\ ScanStep(h.db, tasks, Listed(h, lists, e))
            /\ UNCHANGED created

ScanTasksCreate ==
    \E sc \in ScanScopes, body \in ScanBodies :
        LET e == sc[1]
            m1 == sc[2]
            h == TasksCreate(tasks, GoodAuth(e), m1, body)
        IN  /\ ScanStep(lists, h.db, Plain(h))
            /\ created' = IF h.res.status = 200
                          THEN Append(created, <<e, m1, h.res.name>>) ELSE created

ScanTasksDelete ==
    \E sc \in ScanScopes, m2 \in PathNames(tasks) :
        LET e == sc[1]
            m1 == sc[2]
            h == TasksDelete(tasks, GoodAuth(e), m1, m2)
        IN  /\ ScanStep(lists, h.db, Plain(h))
            /\ created' = IF h.res.status = 200
                          THEN Without(created, {<<e, m1, m2>>}) ELSE created

ScanTasksAll ==
    \E sc \in ScanScopes :
        LET e == sc[1]
            m1 == sc[2]
            h == TasksAll(tasks, GoodAuth(e), m1)
        IN  /\ ScanStep(lists, h.db, Listed(h, tasks, DeriveKey(e, m1)))
            /\ UNCHANGED created

ScanNext ==
    \/ ScanTaskListsCreate
    \/ ScanTaskListsDelete
    \/ ScanTaskListsAll
    \/ ScanTasksCreate
    \/ ScanTasksDelete
    \/ ScanTasksAll

ScanSpec == Init /\ [][ScanNext]_vars

\* the names created under a scope and not deleted since, in order
NamesCreated(scope) ==
    LET Under(c) == SubSeq(c, 1, Len(c) - 1) = scope
        under == SelectSeq(created, Under)
    IN  [i \in 1..Len(under) |-> under[i][Len(scope) + 1]]

ListingExact ==
    /\ \A e \in Emails :
        LET h == TaskListsAll(lists, GoodAuth(e))
            l == Listed(h, lists, e)
        IN  /\ h.db = lists
            /\ l.status = 200
            /\ h.res.names = Range(l.names)
            /\ l.names = NamesCreated(<<e>>)
            /\ NoDuplicate(l.names)
    /\ \A e \in Emails, m1 \in PathLists :
        LET h == TasksAll(tasks, GoodAuth(e), m1)
            l == Listed(h, tasks, DeriveKey(e, m1))
        IN  /\ h.db = tasks
            /\ l.status = 200
            /\ h.res.names = Range(l.names)
            /\ l.names = NamesCreated(<<e, m1>>)
            /\ NoDuplicate(l.names)

-----------------------------------------------------------------------------
(* Two accounts in one store.  Both accounts call every handler with their *)
(* own token; they ask for the same names, and each sends its own content. *)
(* As in Spec, the handlers of one worker run while the store of the other *)
(* is empty.                                                               *)

OwnContent(e) == IF e = U THEN Content1 ELSE Content2

SharedCreateBody(e) == Body(JsonObject(<<X>>, <<OwnContent(e)>>, <<Date1>>))
SharedUpdateBody == Body(JsonObject(<<>>, <<>>, <<Date2>>))

\* the task-list of the task paths
SharedList == X

SharedListsStep(h) ==
    /\ tasks = EmptyDB
    /\ Cardinality(Keys(h.db)) <= MaxOwned
    /\ lists' = h.db
    /\ res' = h.res
    /\ UNCHANGED <<tasks, placed, now, acctVars, sessionVars, raceVars, scanVars>>

SharedTasksStep(h) ==
    /\ lists = EmptyDB
    /\ Cardinality(Keys(h.db)) <= MaxOwned
    /\ tasks' = h.db
    /\ res' = h.res
    /\ UNCHANGED <<lists, placed, now, acctVars, sessionVars, raceVars, scanVars>>

SharedTaskListsAll ==
    \E e \in Emails : SharedListsStep(TaskListsAll(lists, GoodAuth(e)))

SharedTaskListsGet ==
    \E e \in Emails, m1 \in PathNames(lists) :
        SharedListsStep(TaskListsGet(lists, GoodAuth(e), m1))

SharedTaskListsUpdate ==
    \E e \in Emails, m1 \in PathNames(lists) :
        SharedListsStep(TaskListsUpdate(lists, GoodAuth(e), m1, SharedUpdateBody))

SharedTaskListsDelete ==
    \E e \in Emails, m1 \in PathNames(lists) :
        SharedListsStep(TaskListsDelete(lists, GoodAuth(e), m1))

SharedTaskListsCreate ==
    \E e \in Emails :
        SharedListsStep(TaskListsCreate(lists, GoodAuth(e), SharedCreateBody(e)))

SharedTasksAll ==
    \E e \in Emails : SharedTasksStep(TasksAll(tasks, GoodAuth(e), SharedList))

SharedTasksGet ==
    \E e \in Emails, m2 \in PathNames(tasks) :
        SharedTasksStep(TasksGet(tasks, GoodAuth(e), SharedList, m2))

SharedTasksUpdate ==
    \E e \in Emails, m2 \in PathNames(tasks) :
        SharedTasksStep(TasksUpdate(tasks, GoodAuth(e), SharedList, m2, SharedUpdateBody))

SharedTasksDelete ==
    \E e \in Emails, m2 \in PathNames(tasks) :
        SharedTasksStep(TasksDelete(tasks, GoodAuth(e), SharedList, m2))

SharedTasksCreate ==
    \E e \in Emails :
        SharedTasksStep(TasksCreate(tasks, GoodAuth(e), SharedList, SharedCreateBody(e)))

SharedNext ==
    \/ SharedTaskListsAll
    \/ SharedTaskListsGet
    \/ SharedTaskListsUpdate
    \/ SharedTaskListsDelete
    \/ SharedTaskListsCreate
    \/ SharedTasksAll
    \/ SharedTasksGet
    \/ SharedTasksUpdate
    \/ SharedTasksDelete
    \/ SharedTasksCreate

SharedSpec == Init /\ [][SharedNext]_vars

\* the records of db that the account e owns, and the other records
OwnedBy(db, e) == {k \in Keys(db) : IsPrefix(e \o <<Sep>>, k)}
Own(db, e) == [k \in OwnedBy(db, e) |-> db[k]]
Foreign(db, e) == [k \in Keys(db) \ OwnedBy(db, e) |-> db[k]]
Join(d1, d2) == [k \in Keys(d1) \cup Keys(d2) |-> IF k \in Keys(d1) THEN d1[k] ELSE d2[k]]

\* the calls an account can make on the task-lists and on the tasks: every
\* handler, on every name that a record of either account carries
ListCalls(db, e) ==
    {[op |-> o, m |-> m] : o \in {"get", "update", "delete"}, m \in PathNames(db)}
    \cup {[op |-> o, m |-> EmptyStr] : o \in {"all", "create"}}

RunOnLists(c, db, e) ==
    IF c.op = "all" THEN TaskListsAll(db, GoodAuth(e))
    ELSE IF c.op = "get" THEN TaskListsGet(db, GoodAuth(e), c.m)
    ELSE IF c.op = "update" THEN TaskListsUpdate(db, GoodAuth(e), c.m, SharedUpdateBody)
    ELSE IF c.op = "delete" THEN TaskListsDelete(db, GoodAuth(e), c.m)
    ELSE TaskListsCreate(db, GoodAuth(e), SharedCreateBody(e))

RunOnTasks(c, db, e) ==
    IF c.op = "all" THEN TasksAll(db, GoodAuth(e), SharedList)
    ELSE IF c.op = "get" THEN TasksGet(db, GoodAuth(e), SharedList, c.m)
    ELSE IF c.op = "update" THEN TasksUpdate(db, GoodAuth(e), SharedList, c.m, SharedUpdateBody)
    ELSE IF c.op = "delete" THEN TasksDelete(db, GoodAuth(e), SharedList, c.m)
    ELSE TasksCreate(db, GoodAuth(e), SharedList, SharedCreateBody(e))

\* what a call of the account e answers and leaves is what it would answer
\* and leave if the store held the records of e alone, next to the records
\* of the others, untouched
Unaffected(h, alone, db, e) ==
    /\ h.res = alone.res
    /\ OwnedBy(alone.db, e) = Keys(alone.db)
    /\ h.db = Join(alone.db, Foreign(db, e))

CrossAccountIsolation ==
    \A e \in Emails :
        /\ \A c \in ListCalls(lists, e) :
            Unaffected(RunOnLists(c, lists, e), RunOnLists(c, Own(lists, e), e), lists, e)
        /\ \A c \in ListCalls(tasks, e) :
            Unaffected(RunOnTasks(c, tasks, e), RunOnTasks(c, Own(tasks, e), e), tasks, e)

\* C20: the account key of every worker call is the email of the caller's
\* token: whatever handler an account calls, on whatever name, the answer and
\* the records it leaves are those it would get if the store held its own
\* records alone, and the records of the other account stay as they were,
\* so it can neither read, list, create, revise nor delete a task-list or a
\* task of the other account, also when both hold the same names.
C20_CrossAccountIsolation == CrossAccountIsolation

\* both accounts hold a task-list x, each with its own content, and V has
\* just read x and got its own
C20_Witness ==
    /\ DBExists(lists, DeriveKey(U, X))
    /\ DBExists(lists, DeriveKey(V, X))
    /\ Map2Content(DBGet(lists, DeriveKey(U, X))).content = Content1
    /\ res.status = 200
    /\ res.data = Content(X, Content2, Date1)

-----------------------------------------------------------------------------
(* Routes.  A request is a method and a path, a sequence of segments; the  *)
(* server tries the routes of the method in the order of their             *)
(* registration and runs the handler of the first whose pattern matches    *)
(* the whole path, with the segments its groups captured.                  *)

Lit(s) == <<"lit", <<s>>>>
\* the group ([^\/]+): a segment that is not empty
AnySeg == <<"any">>
\* the group (\d+): a segment of digits
NumSeg == <<"num">>

Route(method, pattern, func) == [method |-> method, pattern |-> pattern, func |-> func]

\* the routes of API::Run, in the order of their registration
Routes ==
    << Route("Post", <<Lit("v1"), Lit("users"), Lit("register")>>, "UsersRegister"),
       Route("Post", <<Lit("v1"), Lit("users"), Lit("login")>>, "UsersLogin"),
       Route("Post", <<Lit("v1"), Lit("users"), Lit("logout")>>, "UsersLogout"),
       Route("Get", <<Lit("v1"), Lit("task_lists")>>, "TaskListsAll"),
       Route("Get", <<Lit("v1"), Lit("task_lists"), AnySeg>>, "TaskListsGet"),
       Route("Post", <<Lit("v1"), Lit("task_lists"), Lit("create")>>, "TaskListsCreate"),
       Route("Post", <<Lit("v1"), Lit("task_lists"), AnySeg>>, "TaskListsUpdate"),
       Route("Delete", <<Lit("v1"), Lit("task_lists"), AnySeg>>, "TaskListsDelete"),
       Route("Get", <<Lit("v1"), Lit("task_lists"), AnySeg, Lit("tasks")>>, "TasksAll"),
       Route("Get", <<Lit("v1"), Lit("task_lists"), AnySeg, Lit("tasks"), AnySeg>>, "TasksGet"),
       Route("Post", <<Lit("v1"), Lit("task_lists"), AnySeg, Lit("tasks"), Lit("create")>>,
             "TasksCreate"),
       Route("Post", <<Lit("v1"), Lit("task_lists"), AnySeg, Lit("tasks"), AnySeg>>, "TasksUpdate"),
       Route("Delete", <<Lit("v1"), Lit("task_lists"), AnySeg, Lit("tasks"), AnySeg>>, "TasksDelete"),
       Route("Get", <<Lit("health"), NumSeg>>, "Health") >>

SegmentMatches(p, seg) ==
    IF p[1] = "lit" THEN seg = p[2]
    ELSE IF p[1] = "any" THEN seg # EmptyStr
    ELSE seg # EmptyStr /\ \A i \in 1..Len(seg) : seg[i] \in Range(Digits)

PathMatches(pattern, path) ==
    /\ Len(pattern) = Len(path)
    /\ \A i \in 1..Len(path) : SegmentMatches(pattern[i], path[i])

\* req.matches: the segments the groups of the pattern captured, in order
Captured(pattern, path) ==
    LET groups == {i \in 1..Len(pattern) : pattern[i][1] # "lit"}
        Group(i) == i \in groups
        at == SelectSeq([i \in 1..Len(pattern) |-> i], Group)
    IN  [j \in 1..Len(at) |-> path[at[j]]]

\* the handler a request is run by, with its captures; func is "none" when
\* no route of the method matches
Dispatch(method, path) ==
    LET hits == {i \in 1..Len(Routes) :
                    Routes[i].method = method /\ PathMatches(Routes[i].pattern, path)}
    IN  IF hits = {} THEN [func |-> "none", matches |-> <<>>]
        ELSE LET first == CHOOSE i \in hits : \A j \in hits : i <= j
             IN  [func |-> Routes[first].func, matches |-> Captured(Routes[first].pattern, path)]

\* the name that is also the last segment of the create routes
CreateName == <<"create">>

TaskListsPath == << <<"v1">>, <<"task_lists">> >>
ListPath(m1) == TaskListsPath \o <<m1>>
TasksPath(m1) == ListPath(m1) \o << <<"tasks">> >>
TaskPath(m1, m2) == TasksPath(m1) \o <<m2>>

Request(method, path, headers, body) ==
    [method |-> method, path |-> path, headers |-> headers, body |-> body]

\* the handler func run on the request: what it answers and leaves
Handle(func, m, req) ==
    LET OnLists(h) == [lists |-> h.db, tasks |-> tasks, res |-> h.res]
        OnTasks(h) == [lists |-> lists, tasks |-> h.db, res |-> h.res]
    IN  CASE func = "TaskListsAll" -> OnLists(TaskListsAll(lists, req.headers))
          [] func = "TaskListsGet" -> OnLists(TaskListsGet(lists, req.headers, m[1]))
          [] func = "TaskListsCreate" -> OnLists(TaskListsCreate(lists, req.headers, req.body))
          [] func = "TaskListsUpdate" ->
                OnLists(TaskListsUpdate(lists, req.headers, m[1], req.body))
          [] func = "TaskListsDelete" -> OnLists(TaskListsDelete(lists, req.headers, m[1]))
          [] func = "TasksAll" -> OnTasks(TasksAll(tasks, req.headers, m[1]))
          [] func = "TasksGet" -> OnTasks(TasksGet(tasks, req.headers, m[1], m[2]))
          [] func = "TasksCreate" -> OnTasks(TasksCreate(tasks, req.headers, m[1], req.body))
          [] func = "TasksUpdate" ->
                OnTasks(TasksUpdate(tasks, req.headers, m[1], m[2], req.body))
          [] func = "TasksDelete" -> OnTasks(TasksDelete(tasks, req.headers, m[1], m[2]))
          [] OTHER -> [lists |-> lists, tasks |-> tasks, res |-> RespMsg(404, "")]

\* the names the requests carry, in paths and in bodies
RoutedNames == {X, CreateName}

RoutedPaths ==
    {TaskListsPath} \cup {ListPath(n) : n \in RoutedNames \cup StoredNames(lists)}
    \cup {TasksPath(X)}
    \cup {TaskPath(X, n) : n \in RoutedNames \cup StoredNames(tasks)}

RoutedBodies ==
    {Body(JsonObject(<<n>>, <<Content1>>, <<Date1>>)) : n \in RoutedNames}
    \cup {Body(JsonObject(<<>>, <<>>, <<Date2>>))}

\* the requests of the account U: a post with each body, a get and a
\* delete, which read no body, with none
Requests ==
    {Request("Post", path, GoodAuth(U), body) : path \in RoutedPaths, body \in RoutedBodies}
    \cup
    {Request(method, path, GoodAuth(U), BadBody) :
        method \in {"Get", "Delete"}, path \in RoutedPaths}

Serve ==
    \E req \in Requests :
        LET d == Dispatch(req.method, req.path)
            h == Handle(d.func, d.matches, req)
        IN  /\ Cardinality(Keys(h.lists)) + Cardinality(Keys(h.tasks)) <= MaxRouted
            /\ lists' = h.lists
            /\ tasks' = h.tasks
            /\ res' = h.res
    /\ UNCHANGED <<placed, now, acctVars, sessionVars, raceVars, scanVars>>

RouteNext == Serve

RouteSpec == Init /\ [][RouteNext]_vars

\* a revise, a get and a delete of the task-list m1, and of the task m2 of
\* the task-list m1, reach the handlers of these operations with these names
ListAddressable(m1) ==
    /\ Dispatch("Post", ListPath(m1)) = [func |-> "TaskListsUpdate", matches |-> <<m1>>]
    /\ Dispatch("Get", ListPath(m1)) = [func |-> "TaskListsGet", matches |-> <<m1>>]
    /\ Dispatch("Delete", ListPath(m1)) = [func |-> "TaskListsDelete", matches |-> <<m1>>]

TaskAddressable(m1, m2) ==
    /\ Dispatch("Post", TaskPath(m1, m2)) = [func |-> "TasksUpdate", matches |-> <<m1, m2>>]
    /\ Dispatch("Get", TaskPath(m1, m2)) = [func |-> "TasksGet", matches |-> <<m1, m2>>]
    /\ Dispatch("Delete", TaskPath(m1, m2)) = [func |-> "TasksDelete", matches |-> <<m1, m2>>]

ListsAddressable == \A n \in StoredUnder(lists, U) : ListAddressable(n)
TasksAddressable == \A n \in StoredUnder(tasks, DeriveKey(U, X)) : TaskAddressable(X, n)

\* C21: every task-list and every task that a create has stored, the name
\* "create" included, is addressable by the other operations: the routes,
\* matched in the order of their registration, take a revise request for the
\* stored name to the revise handler with that name, and not to the create
\* handler.
C21_StoredIsAddressable == ListsAddressable /\ TasksAddressable

\* a revise request for the stored task-list "create" was run by the create
\* handler: a second task-list, create-1, is stored
RevisedByCreate ==
    /\ DBExists(lists, DeriveKey(U, CreateName))
    /\ DBExists(lists, DeriveKey(U, Rename(CreateName, 0)))
    /\ res.name = Rename(CreateName, 0)

====
